---- MODULE Spec2Model ----
(***************************************************************************)
(* Environmental data pipeline: the two aggregators (the orchestrator's   *)
(* /collect endpoint and the in-process EnvironmentalDataPipeline), the    *)
(* four container endpoints, and the LANDFIRE categorical decoder.         *)
(*                                                                         *)
(* The specifications of the module share its variables:                   *)
(*   Spec          one aggregator call (orchestrator or pipeline)          *)
(*   SpecContainer the container endpoints /weather /landfire /modis       *)
(*                 /topography                                             *)
(*   SpecDecoder   LANDFIREMetadataExtractor instances and their caches    *)
(*   SpecDecoderThreads  one extractor instance used by several threads    *)
(*   SpecSampler   the landfire container's pixel sampling                 *)
(*   SpecScaling   apply_modis_scaling                                     *)
(*   SpecTrigger   /event-trigger and its background task                  *)
(*   SpecRaster, SpecAspect, SpecCoverage, SpecWeatherRisk, SpecTerrain,   *)
(*   SpecNdvi      raster statistics and the risk classifications          *)
(***************************************************************************)
EXTENDS Integers, Sequences, FiniteSets, TLC

VARIABLES
    \* ---- one aggregator call ----
    aggregator,         \* "none" | "orchestrator" | "pipeline": the entry point called
    pc,                 \* "idle" | "awaiting" | "inflight" | "collected" | "done" | "rejected"
    request,            \* the request as received
    tasks,              \* orchestrator: sources whose coroutine was created, in order
    idx,                \* orchestrator: index in tasks of the coroutine being awaited
    started,            \* sources whose adapter has been invoked
    container_results,  \* orchestrator: source -> <<>> (None) or <<body>>
    errors,             \* orchestrator: summary error strings, as [source, kind]
    waited,             \* seconds the call has spent waiting on fetches that timed out
    response,           \* the envelope returned to the caller
    \* ---- container endpoints ----
    service_available,  \* container -> BOOLEAN: the module-level service object is set
    ctr_reply,          \* the last reply of a container endpoint
    \* ---- categorical decoder ----
    attribute_cache,    \* per extractor instance: _attribute_cache, product_type -> table
    fetch_attempts,     \* per instance and product_type: S3 loads attempted so far
    labels_seen,        \* per instance, product_type and code: the labels returned so far
    last_decode,        \* what the last _decode_categorical_values call returned
    threads,            \* per thread: where it is inside _decode_categorical_values
    \* ---- MODIS scaling ----
    scale_call,         \* the last apply_modis_scaling call and what it returned
    \* ---- pixel sampling ----
    sample,             \* the last interpret_pixel_at_coordinate call and its result
    \* ---- event trigger ----
    event,              \* the EventUpdate /event-trigger received last
    trigger_response,   \* what /event-trigger answered
    background_tasks,   \* the tasks added to BackgroundTasks, not yet run
    collection_requests, \* the (event, source) data-collection requests issued
    \* ---- raster statistics and risk classification ----
    calc                \* the last statistics or classification computed: its
                        \* input and what it returned

aggVars == <<aggregator, pc, request, tasks, idx, started, container_results,
             errors, waited, response>>
ctrVars == <<service_available, ctr_reply>>
decVars == <<attribute_cache, fetch_attempts, labels_seen, last_decode>>
trgVars == <<event, trigger_response, background_tasks, collection_requests>>
extVars == <<threads, scale_call, sample, trgVars, calc>>
vars == <<aggVars, ctrVars, decVars, extVars>>

\* Nothing has happened yet in the part of the program a group of variables
\* belongs to.
ThrIdle == threads = <<>>
SclIdle == scale_call = [kind |-> "none"]
SmpIdle == sample = [kind |-> "none"]
TrgIdle ==
    /\ event = <<>>
    /\ trigger_response = [status |-> "none"]
    /\ background_tasks = <<>>
    /\ collection_requests = {}
CalcIdle == calc = [kind |-> "none"]
ExtIdle == ThrIdle /\ SclIdle /\ SmpIdle /\ TrgIdle /\ CalcIdle

(***************************************************************************)
(* Sources                                                                 *)
(***************************************************************************)
\* The keys of CONTAINER_ENDPOINTS, in insertion order.
CONTAINER_ENDPOINTS == <<"landfire", "modis", "weather", "topography">>

Range(s) == {s[i] : i \in 1..Len(s)}

valid_sources == {"landfire", "modis", "weather", "topography"}

(***************************************************************************)
(* Coordinates.  A float is kept as Python prints it with "%.10f" after    *)
(* stripping trailing zeros: a sign, the whole part and the decimal        *)
(* digits.                                                                 *)
(***************************************************************************)
Coord(neg, whole, frac) == [neg |-> neg, whole |-> whole, frac |-> frac]

\* floor(|c| * 10) and whether |c| * 10 has a fractional part
TenthsFloor(c) == c.whole * 10 + (IF Len(c.frac) >= 1 THEN c.frac[1] ELSE 0)
HasRest(c) == Len(c.frac) >= 2

\* c <= b/10 and c >= b/10, b an integer number of tenths of a degree
Leq(c, b) ==
    IF c.neg THEN TenthsFloor(c) >= -b
    ELSE TenthsFloor(c) < b \/ (TenthsFloor(c) = b /\ ~HasRest(c))
Geq(c, b) ==
    IF c.neg THEN TenthsFloor(c) < -b \/ (TenthsFloor(c) = -b /\ ~HasRest(c))
    ELSE TenthsFloor(c) >= b
IsZero(c) == c.whole = 0 /\ c.frac = <<>>

RECURSIVE DigitsOf(_)
DigitsOf(n) == IF n < 10 THEN <<n>> ELSE DigitsOf(n \div 10) \o <<n % 10>>

\* lat_str.replace('.', '').replace('-', '')
CoordDigits(c) == DigitsOf(c.whole) \o c.frac

\* digit * 5 in digits
HasRepeatedDigits(ds) ==
    \E i \in 1..(Len(ds) - 4) : \A j \in 0..4 : ds[i + j] = ds[i]

(***************************************************************************)
(* Request validation                                                      *)
(***************************************************************************)
LatitudeInRange(lat) == Geq(lat, -900) /\ Leq(lat, 900)
LongitudeInRange(lon) == Geq(lon, -1800) /\ Leq(lon, 1800)

\* TRUE when validate_coordinate_bounds returns without raising
validate_coordinate_bounds(latitude, longitude) ==
    /\ LatitudeInRange(latitude)
    /\ LongitudeInRange(longitude)
    /\ ~(IsZero(latitude) /\ IsZero(longitude))
    /\ LET continental_us == /\ Geq(latitude, 245) /\ Leq(latitude, 495)
                             /\ Geq(longitude, -1250) /\ Leq(longitude, -670)
           alaska == /\ Geq(latitude, 540) /\ Leq(latitude, 715)
                     /\ \/ Geq(longitude, -1800) /\ Leq(longitude, -1300)
                        \/ Geq(longitude, 1700) /\ Leq(longitude, 1800)
           hawaii == /\ Geq(latitude, 180) /\ Leq(latitude, 290)
                     /\ Geq(longitude, -1780) /\ Leq(longitude, -1540)
       IN continental_us \/ alaska \/ hawaii

\* TRUE when validate_coordinate_precision returns without raising
validate_coordinate_precision(latitude, longitude) ==
    /\ ~(Len(latitude.frac) > 8 \/ Len(longitude.frac) > 8)
    /\ \/ Len(CoordDigits(latitude)) < 4
       \/ Len(CoordDigits(longitude)) < 4
       \/ ~(HasRepeatedDigits(CoordDigits(latitude))
              \/ HasRepeatedDigits(CoordDigits(longitude)))

\* Variant: only a non-positive buffer is rejected.
validate_buffer_size_positive_only(buffer_meters) ==
    ~(buffer_meters <= 0)

\* TRUE when validate_buffer_size returns without raising
validate_buffer_size(buffer_meters) ==
    ~(buffer_meters < 100) /\ ~(buffer_meters > 50000)

\* TRUE when validate_sources_list returns without raising
validate_sources_list(sources) ==
    \/ sources = <<>>
    \/ /\ \A i \in 1..Len(sources) : sources[i] \in valid_sources
       /\ Len(sources) = Cardinality(Range(sources))
       /\ ~(Len(sources) > Cardinality(valid_sources))

\* An optional value is <<>> (None, or the field left out) or <<v>>.
DEFAULT_BUFFER_METERS == 1000

\* DataRequest(...) builds: the Field(ge=, le=) constraints and the
\* field validators all pass.  buffer_meters is <<>> when the body leaves
\* it out, and then takes the default; sources is <<>> or <<list>>.
DataRequestValid(req) ==
    /\ LatitudeInRange(req.latitude)
    /\ LongitudeInRange(req.longitude)
    /\ validate_coordinate_bounds(req.latitude, req.longitude)
    /\ validate_coordinate_precision(req.latitude, req.longitude)
    /\ req.buffer_meters # <<>> => validate_buffer_size(req.buffer_meters[1])
    /\ req.sources # <<>> => validate_sources_list(req.sources[1])

BufferOf(req) ==
    IF req.buffer_meters = <<>> THEN DEFAULT_BUFFER_METERS ELSE req.buffer_meters[1]

\* get_location_data's own checks: TRUE when none of them raises ValueError
PipelineRequestValid(req) ==
    /\ LatitudeInRange(req.latitude)
    /\ LongitudeInRange(req.longitude)
    /\ ~(BufferOf(req) <= 0)

(***************************************************************************)
(* Provider services (get_data).  A service makes one sub-request per      *)
(* product; each product that comes back adds an entry to 'data', each     *)
(* that does not adds a string to 'errors'.  A result is kept as the two   *)
(* sizes.                                                                  *)
(***************************************************************************)
\* products + topo_products (landfire), products (modis), current and
\* forecast (weather), elevation (topography)
PRODUCT_COUNT ==
    [landfire |-> 9, modis |-> 8, weather |-> 2, topography |-> 1]

\* Whether the provider can be reached, and how it fails when it cannot
ProviderStates == {"up", "network_error", "timeout", "bad_status"}

\* How many of a service's n sub-requests return data: none, one, or all.
ProductsReturned(n) == {0, 1, n}

\* get_data of the service behind a source.  Every sub-request to a
\* provider that cannot be reached comes back empty; of those to a provider
\* that is up, k return data.
ServiceGetData(source, provider, k) ==
    IF provider # "up"
        THEN [data_n |-> 0, errors_n |-> PRODUCT_COUNT[source]]
        ELSE [data_n |-> k, errors_n |-> PRODUCT_COUNT[source] - k]

\* The weather service wraps both sub-requests in one try: a fault while
\* parsing the current conditions leaves no data and a single error string.
WeatherParseFault == [data_n |-> 0, errors_n |-> 1]

\* What get_data of the service behind a source can return
ServiceResults(source) ==
    {ServiceGetData(source, p, k) :
        p \in ProviderStates, k \in ProductsReturned(PRODUCT_COUNT[source])}
    \cup (IF source = "weather" THEN {WeatherParseFault} ELSE {})

(***************************************************************************)
(* Container endpoints.  quality_score is kept in tenths.                  *)
(***************************************************************************)
QUALITY_FULL == 10
QUALITY_DEGRADED == 8
QUALITY_FAILED == 0
HTTP_OK == 200
HTTP_SERVICE_UNAVAILABLE == 503

\* Variant: the except branch returns an empty errors list.
ErrorOutput_no_errors ==
    [status |-> 200, quality_score |-> 0, interpreted |-> FALSE, errors_n |-> 0]

\* ContainerOutput.to_dict() of the except branch: errors = [str(e)]
ErrorOutput ==
    [status |-> HTTP_OK, quality_score |-> QUALITY_FAILED,
     interpreted |-> FALSE, errors_n |-> 1]

\* The endpoints /landfire, /modis, /weather, /topography.
\*   available  the module-level service object is not None
\*   svc        what the service's get_data returns
\*   analysed   landfire: some pixel was interpreted; topography: the
\*              terrain analysis returned a result
\*   fault      an exception is raised inside the try block
\* 'interpreted' is interpreted_data is not None, i.e. coordinate_specific
\* and area_summary are in the output.
ContainerHandler(container, available, svc, analysed, fault) ==
    IF ~available
        THEN [status |-> HTTP_SERVICE_UNAVAILABLE]
    ELSE IF fault
        THEN ErrorOutput
    ELSE [status |-> HTTP_OK,
          quality_score |-> IF svc.errors_n = 0 THEN QUALITY_FULL ELSE QUALITY_DEGRADED,
          interpreted |-> /\ svc.data_n > 0
                          /\ container \in {"landfire", "topography"} => analysed,
          errors_n |-> svc.errors_n]

\* The weather service is constructed only when an API key is configured;
\* the other three services are always constructed.
ServiceStates(container) ==
    IF container = "weather" THEN BOOLEAN ELSE {TRUE}

\* Every reply a container endpoint can give
ContainerReplies(container) ==
    {ContainerHandler(container, a, svc, an, f) :
        a \in ServiceStates(container), svc \in ServiceResults(container),
        an \in BOOLEAN, f \in BOOLEAN}

(***************************************************************************)
(* The landfire container's LANDFIREMetadataExtractor: sampling the pixel  *)
(* at a coordinate and interpreting it                                     *)
(***************************************************************************)
\* self._fallback_values of the container's extractor: ranges of codes
\* [lo, hi) in insertion order, and the 'default' entry.
container_fallback_values ==
    [vegetation_type |->
        [ranges |-> << [lo |-> 7000, hi |-> 8000, label |-> "Urban/Developed"],
                       [lo |-> 6000, hi |-> 7000, label |-> "Agriculture/Cropland"],
                       [lo |-> 3000, hi |-> 4000, label |-> "Forest"],
                       [lo |-> 2000, hi |-> 3000, label |-> "Grassland"],
                       [lo |-> 4000, hi |-> 5000, label |-> "Shrubland"] >>,
         default |-> "Unknown Vegetation Type"],
     fuel_model |->
        [ranges |-> << [lo |-> 90, hi |-> 100, label |-> "Non-burnable"],
                       [lo |-> 100, hi |-> 110, label |-> "Grass"],
                       [lo |-> 110, hi |-> 130, label |-> "Timber"],
                       [lo |-> 140, hi |-> 150, label |-> "Shrub"] >>,
         default |-> "Unknown Fuel Model"]]

\* _interpret_single_value.  No key of the fallback map is an integer, so
\* the direct match never hits; the first range holding the value gives the
\* label, else the default.  A product type without a fallback map gets
\* 'Unknown (<value>)'.
interpret_single_value(pixel_value, product_type) ==
    IF product_type \notin DOMAIN container_fallback_values
      THEN "Unknown (" \o ToString(pixel_value) \o ")"
      ELSE LET fallback_map == container_fallback_values[product_type]
               hits == {n \in 1..Len(fallback_map.ranges) :
                           /\ fallback_map.ranges[n].lo <= pixel_value
                           /\ pixel_value < fallback_map.ranges[n].hi}
           IN IF hits # {}
                THEN fallback_map.ranges[CHOOSE n \in hits :
                                            \A m \in hits : n <= m].label
                ELSE fallback_map.default

\* A raster as rasterio opens it: band 1 as rows of pixels, and the nodata
\* sentinel of the dataset (<<>> when it has none).
Grid(pixels, nodata) ==
    [height |-> Len(pixels), width |-> Len(pixels[1]),
     pixels |-> pixels, nodata |-> nodata]

Grids ==
    { Grid(<< <<7298, 3001>>, <<-9999, 2500>> >>, <<-9999>>),
      Grid(<< <<91, 102>> >>, <<>>),
      Grid(<< <<0>>, <<145>> >>, <<0>>) }

\* The (row, col) rasterio.transform.rowcol can give for a coordinate
PixelIndexes == -1..2

\* interpret_pixel_at_coordinate, given the (row, col) the transform gives
\* for the coordinate.  'raises' is an exception inside the try block (the
\* bytes are no GeoTIFF, the transform fails).
interpret_pixel_at_coordinate(grid, row, col, product_type, raises) ==
    IF raises
      THEN [kind |-> "error", error |-> "Pixel extraction failed"]
    ELSE IF 0 <= row /\ row < grid.height /\ 0 <= col /\ col < grid.width
      THEN [kind |-> "coordinate_pixel", row |-> row, col |-> col,
            pixel_value |-> grid.pixels[row + 1][col + 1],
            interpreted |-> interpret_single_value(
                               grid.pixels[row + 1][col + 1], product_type)]
    ELSE [kind |-> "error", error |-> "Coordinates outside raster bounds"]

(***************************************************************************)
(* What a container endpoint returns: ContainerOutput.to_dict()            *)
(***************************************************************************)
\* event_id of a request: None (written <<>>) or an identifier
EventIds == { <<>>, <<"evt_fire_2024_001">>, <<"incident-2025-001">> }

\* Variant: the output of the except branch carries no event_id.
ContainerOutput_error_without_event_id(container, event_id, available, svc, analysed, fault) ==
    LET h == ContainerHandler(container, available, svc, analysed, fault)
    IN IF h.status # 200 THEN h
       ELSE [status |-> h.status, quality_score |-> h.quality_score,
             interpreted |-> h.interpreted, errors_n |-> h.errors_n,
             event_id |-> IF fault THEN <<>> ELSE event_id]

\* The body an endpoint answers a request with: on both paths the
\* ContainerOutput is built with event_id = request.event_id.
ContainerOutput(container, event_id, available, svc, analysed, fault) ==
    LET h == ContainerHandler(container, available, svc, analysed, fault)
    IN IF h.status # HTTP_OK THEN h
       ELSE [status |-> h.status, quality_score |-> h.quality_score,
             interpreted |-> h.interpreted, errors_n |-> h.errors_n,
             event_id |-> event_id]

\* Every body a container endpoint can answer a request with
ContainerOutputs(container, event_id) ==
    {ContainerOutput(container, event_id, a, svc, an, f) :
        a \in ServiceStates(container), svc \in ServiceResults(container),
        an \in BOOLEAN, f \in BOOLEAN}

(***************************************************************************)
(* interpreted_data of the four containers.  An observation is what the    *)
(* provider's data held at the coordinate; a field is <<>> when the data   *)
(* does not hold it.                                                       *)
(***************************************************************************)
\* What interpret_pixel_at_coordinate can return for a product
PixelInterpretations(product_type) ==
    {interpret_pixel_at_coordinate(grid, row, col, product_type, raises) :
        grid \in Grids, row \in PixelIndexes, col \in PixelIndexes,
        raises \in BOOLEAN}

Optional(S) == {<<>>} \cup {<<x>> : x \in S}

\* landfire: interpreted_pixels of the two categorical products;
\* modis: the centre value of the latest MOD13Q1 NDVI entry;
\* weather: temp, humidity and wind speed of the current conditions;
\* topography: max - min of the valid elevations, in metres.
Observations(container) ==
    CASE container = "landfire" ->
            [vegetation_type : Optional(PixelInterpretations("vegetation_type")),
             fuel_model : Optional(PixelInterpretations("fuel_model"))]
      [] container = "modis" ->
            [ndvi : Optional({-10001, -3000, 1000, 1001, 3000, 3001, 6000, 6001,
                              10000, 10001})]
      [] container = "weather" ->
            [current : Optional([temp : {20, 21, 26, 31},
                                 humidity : {19, 39, 59, 60},
                                 wind_speed : {5, 6, 11, 16}])]
      [] container = "topography" ->
            [elevation_range : Optional({50, 51, 100, 101})]

Present(x) == IF x = <<>> THEN 0 ELSE 1

\* Whether the service result and the observation can come from the same
\* provider data.  'analysed' is, for landfire, that metadata_extractor is
\* set; for topography, that analyze_elevation_data returned a result.
Observable(container, svc, analysed, obs) ==
    CASE container = "landfire" ->
            LET n == Present(obs.vegetation_type) + Present(obs.fuel_model)
            IN /\ n <= svc.data_n
               /\ n > 0 => analysed
               /\ (analysed /\ svc.data_n = PRODUCT_COUNT["landfire"]) => n = 2
      [] container = "modis" ->
            Present(obs.ndvi) <= svc.data_n
      [] container = "weather" ->
            /\ Present(obs.current) <= svc.data_n
            /\ svc.data_n = PRODUCT_COUNT["weather"] => obs.current # <<>>
      [] container = "topography" ->
            obs.elevation_range # <<>> <=> (svc.data_n > 0 /\ analysed)

\* pixel_data.get(key) of an interpretation that has "coordinate_pixel"
PixelField(interpretation, key) ==
    IF interpretation # <<>> /\ interpretation[1].kind = "coordinate_pixel"
      THEN <<interpretation[1][key]>>
      ELSE <<>>

\* The terms of the fire-risk rule found in label.lower(), for the labels
\* _interpret_single_value can give
TermsIn(label) ==
    CASE label = "Urban/Developed" -> {"urban", "developed"}
      [] label = "Grassland" -> {"grass"}
      [] label = "Grass" -> {"grass"}
      [] label = "Timber" -> {"timber"}
      [] OTHER -> {}

\* get_landfire_data: "Determine fire risk based on vegetation and fuel model"
landfire_fire_risk(vegetation_class, fuel_model_class) ==
    IF vegetation_class # <<>> /\ fuel_model_class # <<>>
      THEN IF TermsIn(vegetation_class[1]) \cap {"developed", "urban", "water"} # {}
             THEN "LOW"
           ELSE IF TermsIn(fuel_model_class[1]) \cap {"chaparral", "timber", "grass"} # {}
             THEN "MODERATE_TO_HIGH"
           ELSE "MODERATE"
      ELSE "UNKNOWN"

\* Variant: the thresholds themselves count.
calculate_fire_weather_risk_inclusive(temp, humidity, wind_speed) ==
    LET risk_score ==
            (IF temp >= 30 THEN 3 ELSE IF temp >= 25 THEN 2
             ELSE IF temp >= 20 THEN 1 ELSE 0)
          + (IF humidity <= 20 THEN 3 ELSE IF humidity <= 40 THEN 2
             ELSE IF humidity <= 60 THEN 1 ELSE 0)
          + (IF wind_speed >= 15 THEN 3 ELSE IF wind_speed >= 10 THEN 2
             ELSE IF wind_speed >= 5 THEN 1 ELSE 0)
    IN IF risk_score >= 7 THEN "EXTREME"
       ELSE IF risk_score >= 5 THEN "HIGH"
       ELSE IF risk_score >= 3 THEN "MODERATE"
       ELSE "LOW"

\* _calculate_fire_weather_risk
calculate_fire_weather_risk(temp, humidity, wind_speed) ==
    LET risk_score ==
            (IF temp > 30 THEN 3 ELSE IF temp > 25 THEN 2
             ELSE IF temp > 20 THEN 1 ELSE 0)
          + (IF humidity < 20 THEN 3 ELSE IF humidity < 40 THEN 2
             ELSE IF humidity < 60 THEN 1 ELSE 0)
          + (IF wind_speed > 15 THEN 3 ELSE IF wind_speed > 10 THEN 2
             ELSE IF wind_speed > 5 THEN 1 ELSE 0)
    IN IF risk_score >= 7 THEN "EXTREME"
       ELSE IF risk_score >= 5 THEN "HIGH"
       ELSE IF risk_score >= 3 THEN "MODERATE"
       ELSE "LOW"

\* get_modis_data: fire_risk_vegetation from the centre NDVI value.  raw is
\* the value as delivered; raw * 0.0001 is kept only within [-1.0, 1.0].
fire_risk_vegetation(raw) ==
    IF raw = <<>> \/ raw[1] < -10000 \/ raw[1] > 10000 THEN "UNKNOWN"
    ELSE IF raw[1] > 6000 THEN "LOW"
    ELSE IF raw[1] > 3000 THEN "MODERATE"
    ELSE IF raw[1] > 1000 THEN "HIGH"
    ELSE "EXTREME"

\* analyze_elevation_data: fire_risk_terrain from the elevation range
fire_risk_terrain(elevation_range) ==
    IF elevation_range > 100 THEN "HIGH"
    ELSE IF elevation_range > 50 THEN "MODERATE"
    ELSE "LOW"

\* interpreted_data of the output: None (written <<>>) when the handler
\* built none, else coordinate_specific and risk_assessment.
InterpretedData(container, obs, interpreted) ==
    IF ~interpreted THEN <<>>
    ELSE CASE container = "landfire" ->
                LET cs == [vegetation_class |->
                               PixelField(obs.vegetation_type, "interpreted"),
                           vegetation_pixel_value |->
                               PixelField(obs.vegetation_type, "pixel_value"),
                           fuel_model_class |->
                               PixelField(obs.fuel_model, "interpreted"),
                           fuel_model_pixel_value |->
                               PixelField(obs.fuel_model, "pixel_value")]
                IN << [coordinate_specific |-> cs,
                       risk_assessment |->
                           landfire_fire_risk(cs.vegetation_class,
                                              cs.fuel_model_class)] >>
           [] container = "modis" ->
                << [coordinate_specific |-> [ndvi_raw |-> obs.ndvi],
                    risk_assessment |-> fire_risk_vegetation(obs.ndvi)] >>
           [] container = "weather" ->
                LET risk == IF obs.current = <<>> THEN "UNKNOWN"
                            ELSE calculate_fire_weather_risk(
                                     obs.current[1].temp, obs.current[1].humidity,
                                     obs.current[1].wind_speed)
                IN << [coordinate_specific |-> [fire_weather_risk |-> risk],
                       risk_assessment |-> risk] >>
           [] container = "topography" ->
                LET risk == IF obs.elevation_range = <<>> THEN "UNKNOWN"
                            ELSE fire_risk_terrain(obs.elevation_range[1])
                IN << [coordinate_specific |-> [fire_risk_terrain |-> risk],
                       risk_assessment |-> risk] >>

(***************************************************************************)
(* Inputs                                                                  *)
(***************************************************************************)
\* -91, 0, 21.3069, 34.0522, 34.052200001, 37.11111, 48.8566, 91
Latitudes ==
    { Coord(TRUE, 91, <<>>), Coord(FALSE, 0, <<>>),
      Coord(FALSE, 21, <<3, 0, 6, 9>>), Coord(FALSE, 34, <<0, 5, 2, 2>>),
      Coord(FALSE, 34, <<0, 5, 2, 2, 0, 0, 0, 0, 1>>),
      Coord(FALSE, 37, <<1, 1, 1, 1, 1>>),
      Coord(FALSE, 48, <<8, 5, 6, 6>>), Coord(FALSE, 91, <<>>) }

\* -181, -157.8583, -118.2437, 0, 2.3522, 181
Longitudes ==
    { Coord(TRUE, 181, <<>>), Coord(TRUE, 157, <<8, 5, 8, 3>>),
      Coord(TRUE, 118, <<2, 4, 3, 7>>), Coord(FALSE, 0, <<>>),
      Coord(FALSE, 2, <<3, 5, 2, 2>>), Coord(FALSE, 181, <<>>) }

\* buffer_meters: left out, or one of these
Buffers == { <<>>, <<0>>, <<99>>, <<100>>, <<50000>>, <<50001>> }

\* sources: left out, or one of these lists
SourceLists ==
    { <<>>, << <<>> >>, << <<"weather">> >>, << <<"topography", "modis">> >>,
      << <<"modis", "topography">> >>,
      << <<"pdf">> >>, << <<"weather", "weather">> >> }

\* event_id is left out or one of the identifiers of EventIds, all of which
\* validate_event_id accepts.
Requests ==
    [latitude : Latitudes, longitude : Longitudes,
     buffer_meters : Buffers, sources : SourceLists, event_id : EventIds]

(***************************************************************************)
(* Orchestrator: POST /collect                                             *)
(***************************************************************************)
FETCH_TIMEOUT_SECONDS == 120

\* data_request.sources or list(CONTAINER_ENDPOINTS.keys())
sources_to_fetch(req) ==
    IF req.sources = <<>> \/ req.sources[1] = <<>>
        THEN CONTAINER_ENDPOINTS
        ELSE req.sources[1]

\* What awaiting fetch_container_data ends in.  The container is posted
\* the coordinates and event_id = data_request.event_id; the outcome is the
\* JSON body of a 200 reply, or an exception for any other status, a
\* timeout or a client error.
FetchOutcomes(source, event_id) ==
    {[raised |-> FALSE, body |-> r] :
        r \in {x \in ContainerOutputs(source, event_id) : x.status = HTTP_OK}}
    \cup {[raised |-> TRUE, reason |-> "status", seconds |-> 0],
          [raised |-> TRUE, reason |-> "timeout", seconds |-> FETCH_TIMEOUT_SECONDS],
          [raised |-> TRUE, reason |-> "network", seconds |-> 0]}

\* dict assignment d[k] = v
DictSet(d, k, v) == [x \in (DOMAIN d) \cup {k} |-> IF x = k THEN v ELSE d[x]]

\* Variant: every key of the dict is counted, None or not.
successful_sources_counts_none(results) ==
    Cardinality(DOMAIN results)

\* The number of values of the dict that are not None
successful_sources(results) ==
    Cardinality({s \in DOMAIN results : results[s] # <<>>})

\* container_results.get(source) is truthy: the key is there and its value
\* is neither None nor an empty dict
Truthy(results, source) ==
    /\ source \in DOMAIN results
    /\ results[source] # <<>>
    /\ DOMAIN results[source][1] # {}

\* Variant: a source whose fetch failed gets an entry of its own, a failed
\* result with quality_score 0.
CollectResult_entry_for_failed(req, results, errs) ==
    LET present == {s \in Range(CONTAINER_ENDPOINTS) : s \in DOMAIN results}
    IN [kind |-> "envelope",
        keys |-> {"request_id", "event_id", "location", "timestamp",
                  "summary", "total_processing_time_ms"} \cup present,
        summary |-> [total_sources |-> Len(sources_to_fetch(req)),
                     successful_sources |-> successful_sources(results),
                     total_errors |-> Len(errs),
                     errors |-> errs],
        sources |-> [s \in present |->
                        IF results[s] = <<>> THEN ErrorOutput ELSE results[s][1]]]

\* The dict returned by collect_environmental_data
CollectResult(req, results, errs) ==
    LET present == {s \in Range(CONTAINER_ENDPOINTS) : Truthy(results, s)}
    IN [kind |-> "envelope",
        keys |-> {"request_id", "event_id", "location", "timestamp",
                  "summary", "total_processing_time_ms"} \cup present,
        summary |-> [total_sources |-> Len(sources_to_fetch(req)),
                     successful_sources |-> successful_sources(results),
                     total_errors |-> Len(errs),
                     errors |-> errs],
        sources |-> [s \in present |-> results[s][1]]]

NoResponse == [kind |-> "none"]
Rejected == [kind |-> "rejected"]

\* FastAPI builds the DataRequest; the handler runs only if that succeeds.
\* The handler creates one coroutine per source; none of them runs yet.
OrchCollect ==
    /\ pc = "idle"
    /\ \E req \in Requests :
        /\ request' = req
        /\ aggregator' = "orchestrator"
        /\ IF DataRequestValid(req)
             THEN /\ pc' = "awaiting"
                  /\ tasks' = SelectSeq(sources_to_fetch(req),
                                 LAMBDA s : s \in Range(CONTAINER_ENDPOINTS))
                  /\ idx' = 1
                  /\ response' = NoResponse
             ELSE /\ pc' = "rejected"
                  /\ tasks' = <<>>
                  /\ idx' = 0
                  /\ response' = Rejected
    /\ UNCHANGED <<started, container_results, errors, waited, ctrVars, decVars, extVars>>

\* "result = await task" reaches the next coroutine, which starts running.
OrchAwait ==
    /\ aggregator = "orchestrator"
    /\ pc = "awaiting"
    /\ idx <= Len(tasks)
    /\ started' = started \cup {tasks[idx]}
    /\ pc' = "inflight"
    /\ UNCHANGED <<aggregator, request, tasks, idx, container_results, errors,
                   waited, response, ctrVars, decVars, extVars>>

\* Variant: no except clause around the await; a fetch that raises ends the
\* whole call.
OrchFetchDone_unhandled ==
    /\ aggregator = "orchestrator"
    /\ pc = "inflight"
    /\ \E o \in FetchOutcomes(tasks[idx], request.event_id) :
        IF o.raised
          THEN /\ response' = [kind |-> "failed"]
               /\ pc' = "done"
               /\ waited' = waited + o.seconds
               /\ UNCHANGED <<errors, container_results, idx>>
          ELSE /\ container_results' = DictSet(container_results, tasks[idx], <<o.body>>)
               /\ idx' = idx + 1
               /\ pc' = IF idx = Len(tasks) THEN "collected" ELSE "awaiting"
               /\ UNCHANGED <<errors, waited, response>>
    /\ UNCHANGED <<aggregator, request, tasks, started, ctrVars, decVars, extVars>>

\* Variant: a fetch that raises leaves an empty dict, not None.
OrchFetchDone_failed_as_empty_dict ==
    /\ aggregator = "orchestrator"
    /\ pc = "inflight"
    /\ \E o \in FetchOutcomes(tasks[idx], request.event_id) :
        IF o.raised
          THEN /\ errors' = Append(errors, [source |-> tasks[idx], reason |-> o.reason])
               /\ container_results' = DictSet(container_results, tasks[idx], << <<>> >>)
               /\ waited' = waited + o.seconds
          ELSE /\ container_results' = DictSet(container_results, tasks[idx], <<o.body>>)
               /\ UNCHANGED <<errors, waited>>
    /\ idx' = idx + 1
    /\ pc' = IF idx = Len(tasks) THEN "collected" ELSE "awaiting"
    /\ UNCHANGED <<aggregator, request, tasks, started, response, ctrVars, decVars, extVars>>

\* Variant: the loop over the tasks ends at the first fetch that raises.
OrchFetchDone_stops_at_failure ==
    /\ aggregator = "orchestrator"
    /\ pc = "inflight"
    /\ \E o \in FetchOutcomes(tasks[idx], request.event_id) :
        IF o.raised
          THEN /\ errors' = Append(errors, [source |-> tasks[idx], reason |-> o.reason])
               /\ container_results' = DictSet(container_results, tasks[idx], <<>>)
               /\ waited' = waited + o.seconds
               /\ pc' = "collected"
          ELSE /\ container_results' = DictSet(container_results, tasks[idx], <<o.body>>)
               /\ pc' = IF idx = Len(tasks) THEN "collected" ELSE "awaiting"
               /\ UNCHANGED <<errors, waited>>
    /\ idx' = idx + 1
    /\ UNCHANGED <<aggregator, request, tasks, started, response, ctrVars, decVars, extVars>>

\* The awaited fetch returns or raises; the loop moves to the next task.
OrchFetchDone ==
    /\ aggregator = "orchestrator"
    /\ pc = "inflight"
    /\ \E o \in FetchOutcomes(tasks[idx], request.event_id) :
        IF o.raised
          THEN /\ errors' = Append(errors, [source |-> tasks[idx], reason |-> o.reason])
               /\ container_results' = DictSet(container_results, tasks[idx], <<>>)
               /\ waited' = waited + o.seconds
          ELSE /\ container_results' = DictSet(container_results, tasks[idx], <<o.body>>)
               /\ UNCHANGED <<errors, waited>>
    /\ idx' = idx + 1
    /\ pc' = IF idx = Len(tasks) THEN "collected" ELSE "awaiting"
    /\ UNCHANGED <<aggregator, request, tasks, started, response, ctrVars, decVars, extVars>>

\* After the loop: the summary and the result dict
OrchRespond ==
    /\ aggregator = "orchestrator"
    /\ pc = "collected"
    /\ response' = CollectResult(request, container_results, errors)
    /\ pc' = "done"
    /\ UNCHANGED <<aggregator, request, tasks, idx, started, container_results,
                   errors, waited, ctrVars, decVars, extVars>>

(***************************************************************************)
(* Pipeline: EnvironmentalDataPipeline.get_location_data                   *)
(***************************************************************************)
ENABLE_LANDFIRE == TRUE
MODIS_ENABLED == TRUE
ENABLE_USGS_ELEVATION == TRUE

\* The result keys, in the order the workflow fills them
PipelineSources == <<"landfire", "modis", "elevation", "weather">>

\* self.<service> is not None.  The weather service exists only when an
\* API key is configured.
ServiceEnabled(key, weather_key) ==
    CASE key = "landfire" -> ENABLE_LANDFIRE
      [] key = "modis" -> MODIS_ENABLED
      [] key = "elevation" -> ENABLE_USGS_ELEVATION
      [] key = "weather" -> weather_key

\* What calling self.<service>.get_data ends in
ServiceCalls(key) ==
    {[call |-> "returned", data_n |-> r.data_n, errors_n |-> r.errors_n] :
        r \in ServiceResults(IF key = "elevation" THEN "topography" ELSE key)}
    \cup {[call |-> "raised"]}

\* results[key] after the key's block: the service's result, a dict with
\* one error string when the call raised, or an 'info' note when the
\* service is disabled.
SourceEntry(enabled, c) ==
    IF ~enabled THEN [kind |-> "info"]
    ELSE IF c.call = "raised" THEN [kind |-> "error", errors_n |-> 1]
    ELSE [kind |-> "result", data_n |-> c.data_n, errors_n |-> c.errors_n]

\* results[key].get('data') is truthy
HasData(entry) == entry.kind = "result" /\ entry.data_n > 0

\* results['data'] and not results['errors']
Succeeded(entry) == HasData(entry) /\ entry.errors_n = 0

\* max(0, min(100, score))
Clamp(score) ==
    LET capped == IF score < 100 THEN score ELSE 100
    IN IF capped > 0 THEN capped ELSE 0

\* Variant: the score is not clamped.
TimelinessScore_unclamped(real_time_count, static_count, stale_warnings) ==
    real_time_count * 25 + static_count * 15 - stale_warnings * 10

\* The timeliness score of _calculate_data_currency
TimelinessScore(real_time_count, static_count, stale_warnings) ==
    Clamp(real_time_count * 25 + static_count * 15 - stale_warnings * 10)

\* The dict returned by get_location_data.  calls[key] is what the key's
\* service call ends in; stale_n is the number of MODIS products whose
\* latest record is older than 16 days.
LocationData(req, weather_key, calls, stale_n) ==
    LET entry == [k \in Range(PipelineSources) |->
                     SourceEntry(ServiceEnabled(k, weather_key), calls[k])]
        counted == {k \in Range(PipelineSources) : entry[k].kind = "result"}
        ErrorsOf(k) == IF entry[k].kind = "info" THEN 0 ELSE entry[k].errors_n
        real_time_sources ==
            SelectSeq(<<"weather">>, LAMBDA k : Succeeded(entry[k]))
        static_sources ==
            SelectSeq(<<"landfire", "elevation", "modis">>, LAMBDA k : HasData(entry[k]))
        stale_data_warnings == IF HasData(entry["modis"]) THEN stale_n ELSE 0
    IN [kind |-> "envelope",
        keys |-> {"request", "landfire", "modis", "elevation", "weather",
                  "data_currency", "summary"},
        results |-> entry,
        data_currency |-> [real_time_sources |-> real_time_sources,
                           static_sources |-> static_sources,
                           stale_data_warnings |-> stale_data_warnings],
        summary |-> [total_sources |-> Cardinality(counted),
                     successful_sources |->
                         Cardinality({k \in counted : Succeeded(entry[k])}),
                     total_errors |->
                         ErrorsOf("landfire") + ErrorsOf("modis")
                           + ErrorsOf("elevation") + ErrorsOf("weather"),
                     timeliness_score |->
                         TimelinessScore(Len(real_time_sources), Len(static_sources),
                                         stale_data_warnings)]]

\* The largest number of stale MODIS products drawn
MaxStale == 2

\* One call of get_location_data, start to return.  The request carries no
\* source list.  Services are called one after the other.
PipelineGetLocationData ==
    /\ pc = "idle"
    /\ \E req \in {r \in Requests : r.sources = <<>> /\ r.event_id = <<>>} :
        /\ request' = req
        /\ aggregator' = "pipeline"
        /\ IF PipelineRequestValid(req)
             THEN \E weather_key \in BOOLEAN :
                  \E cl \in ServiceCalls("landfire"), cm \in ServiceCalls("modis"),
                     ce \in ServiceCalls("elevation"), cw \in ServiceCalls("weather"),
                     stale_n \in 0..MaxStale :
                  LET calls == [landfire |-> cl, modis |-> cm, elevation |-> ce,
                                weather |-> cw]
                  IN
                    /\ stale_n <= (IF cm.call = "returned" THEN cm.data_n ELSE 0)
                    /\ started' = {k \in Range(PipelineSources) :
                                      ServiceEnabled(k, weather_key)}
                    /\ response' = LocationData(req, weather_key, calls, stale_n)
                    /\ pc' = "done"
             ELSE /\ pc' = "rejected"
                  /\ response' = Rejected
                  /\ UNCHANGED started
    /\ UNCHANGED <<tasks, idx, container_results, errors, waited, ctrVars, decVars, extVars>>

Init ==
    /\ aggregator = "none"
    /\ pc = "idle"
    /\ request = <<>>
    /\ tasks = <<>>
    /\ idx = 0
    /\ started = {}
    /\ container_results = <<>>
    /\ errors = <<>>
    /\ waited = 0
    /\ response = NoResponse
    /\ service_available = <<>>
    /\ ctr_reply = [container |-> "none"]
    /\ attribute_cache = <<>>
    /\ fetch_attempts = <<>>
    /\ labels_seen = <<>>
    /\ last_decode = [type |-> "none"]
    /\ ExtIdle

Next ==
    \/ OrchCollect
    \/ OrchAwait
    \/ OrchFetchDone
    \/ OrchRespond
    \/ PipelineGetLocationData

Spec == Init /\ [][Next]_vars

(***************************************************************************)
(* Properties of one aggregator call (specification Spec)                  *)
(***************************************************************************)
OrchestratorKeys ==
    {"request_id", "event_id", "location", "timestamp", "summary",
     "total_processing_time_ms"}
PipelineKeys ==
    {"request", "landfire", "modis", "elevation", "weather", "data_currency",
     "summary"}
OrchDone == aggregator = "orchestrator" /\ pc = "done"
PipeDone == aggregator = "pipeline" /\ pc = "done"
Fetched(s) == s \in DOMAIN container_results /\ container_results[s] # <<>>
FetchFailed(s) == s \in DOMAIN container_results /\ container_results[s] = <<>>

C2_ErrorStrings(entry) == IF entry.kind = "info" THEN 0 ELSE entry.errors_n

\* C2 (amended): the orchestrator's summary counts the sources whose fetch
\* returned as successful_sources and those whose fetch failed as
\* total_errors, and the two add up to total_sources.  The pipeline's
\* summary counts in total_sources the sources whose service call returned,
\* in successful_sources those that returned data and no error, and in
\* total_errors the error strings of all sources.
C2_SummaryCounts ==
    pc = "done" =>
        IF aggregator = "orchestrator"
          THEN /\ response.summary.successful_sources
                     = Cardinality({s \in Range(tasks) : Fetched(s)})
               /\ response.summary.total_errors
                     = Cardinality({s \in Range(tasks) : FetchFailed(s)})
               /\ response.summary.total_sources = Len(tasks)
               /\ response.summary.successful_sources + response.summary.total_errors
                     = response.summary.total_sources
          ELSE LET r == response.results
               IN /\ response.summary.total_sources
                        = Cardinality({k \in DOMAIN r : r[k].kind = "result"})
                  /\ response.summary.successful_sources
                        = Cardinality({k \in DOMAIN r :
                              /\ r[k].kind = "result"
                              /\ r[k].data_n > 0
                              /\ r[k].errors_n = 0})
                  /\ response.summary.total_errors
                        = C2_ErrorStrings(r["landfire"]) + C2_ErrorStrings(r["modis"])
                            + C2_ErrorStrings(r["elevation"]) + C2_ErrorStrings(r["weather"])

\* C2 witness: four requested sources, two fetched and two timed out; the
\* summary says 2 successful and 2 errors.
C2_Witness ==
    /\ OrchDone
    /\ Len(tasks) = 4
    /\ Cardinality({s \in Range(tasks) : Fetched(s)}) = 2
    /\ Len(errors) = 2
    /\ \A i \in 1..Len(errors) : errors[i].reason = "timeout"
    /\ response.summary.successful_sources = 2
    /\ response.summary.total_errors = 2

\* C2 as stated: in every summary the successes and the errors add up to
\* total_sources.
C2_CountsAddUp ==
    pc = "done" =>
        response.summary.successful_sources + response.summary.total_errors
            = response.summary.total_sources

\* C3: while the orchestrator waits for one source's fetch, the fetch of
\* every requested source has been started, and the call never waits longer
\* than one fetch timeout.
C3_ConcurrentFetch ==
    aggregator = "orchestrator" =>
        /\ pc = "inflight" => started = Range(tasks)
        /\ waited <= FETCH_TIMEOUT_SECONDS

\* C4 (amended): a source whose fetch timed out has no entry in the
\* response; the timeout is an error string of the summary, counted in
\* total_errors and not in successful_sources.
C4_TimeoutReported ==
    OrchDone =>
        \A i \in 1..Len(errors) :
            errors[i].reason = "timeout" =>
                /\ errors[i].source \notin response.keys
                /\ errors[i].source \notin DOMAIN response.sources
                /\ \E j \in 1..Len(response.summary.errors) :
                       response.summary.errors[j] = errors[i]
                /\ response.summary.total_errors >= 1
                /\ response.summary.successful_sources < response.summary.total_sources

\* C4 witness: a call has returned after the weather fetch timed out.
C4_Witness ==
    /\ OrchDone
    /\ \E i \in 1..Len(errors) :
          errors[i] = [source |-> "weather", reason |-> "timeout"]
    /\ "weather" \notin response.keys
    /\ response.summary.total_errors >= 1

\* C4 as stated: a source whose fetch timed out has an entry in the
\* response, with quality_score 0.
C4_TimeoutEntry ==
    OrchDone =>
        \A i \in 1..Len(errors) :
            errors[i].reason = "timeout" =>
                /\ errors[i].source \in DOMAIN response.sources
                /\ response.sources[errors[i].source].quality_score = 0

C5_CoordinatesInRange ==
    LatitudeInRange(request.latitude) /\ LongitudeInRange(request.longitude)
C5_BufferGiven == request.buffer_meters # <<>>
C5_Buffer == request.buffer_meters[1]
C5_SourcesWellFormed ==
    \/ request.sources = <<>>
    \/ /\ Range(request.sources[1]) \subseteq {"landfire", "modis", "weather", "topography"}
       /\ \A i, j \in 1..Len(request.sources[1]) :
             request.sources[1][i] = request.sources[1][j] => i = j

C9_TimelinessScore ==
    PipeDone =>
        LET r == response.results
            rt == Cardinality({k \in {"weather"} :
                      r[k].kind = "result" /\ r[k].data_n > 0 /\ r[k].errors_n = 0})
            st == Cardinality({k \in {"landfire", "elevation", "modis"} :
                      r[k].kind = "result" /\ r[k].data_n > 0})
            stale == response.data_currency.stale_data_warnings
            raw == 25 * rt + 15 * st - 10 * stale
            score == response.summary.timeliness_score
        IN /\ rt = Len(response.data_currency.real_time_sources)
           /\ st = Len(response.data_currency.static_sources)
           /\ score = (IF raw < 0 THEN 0 ELSE IF raw > 100 THEN 100 ELSE raw)
           /\ score >= 0 /\ score <= 100
           /\ TimelinessScore(rt + 1, st, stale) >= score
           /\ TimelinessScore(rt, st, stale + 1) <= score
           /\ TimelinessScore(rt + 1, st, stale) \in 0..100
           /\ TimelinessScore(rt, st, stale + 1) \in 0..100

\* C9 witness: MODIS is the only source with data and two of its products
\* are stale: 15 - 20 is clamped to 0.
C9_Witness ==
    /\ PipeDone
    /\ response.data_currency.static_sources = <<"modis">>
    /\ response.data_currency.real_time_sources = <<>>
    /\ response.data_currency.stale_data_warnings = 2
    /\ response.summary.timeliness_score = 0

\* C9 as stated: 25 for each real-time source present, 15 for each static
\* source that succeeded.
C9_PresentAndSucceeded ==
    PipeDone =>
        LET r == response.results
            present == Cardinality({k \in {"weather"} :
                          r[k].kind = "result" /\ r[k].data_n > 0})
            succeeded == Cardinality({k \in {"landfire", "elevation", "modis"} :
                          r[k].kind = "result" /\ r[k].data_n > 0 /\ r[k].errors_n = 0})
            raw == 25 * present + 15 * succeeded
                     - 10 * response.data_currency.stale_data_warnings
        IN response.summary.timeliness_score
              = (IF raw < 0 THEN 0 ELSE IF raw > 100 THEN 100 ELSE raw)

(***************************************************************************)
(* The container endpoints as a state machine (specification               *)
(* SpecContainer): each action is one request to one endpoint.             *)
(***************************************************************************)
NoReply == [container |-> "none"]

\* One request to the endpoint of a container: the request carries an
\* event_id or none, the provider is in some state, the service call and the
\* interpretation go some way, and the reply is what the handler makes of
\* it.
Endpoint(container) ==
    \E obs \in Observations(container),
       event_id \in EventIds,
       provider \in ProviderStates,
       k \in ProductsReturned(PRODUCT_COUNT[container]),
       parse_fault \in (IF container = "weather" THEN BOOLEAN ELSE {FALSE}),
       analysed \in (IF container \in {"landfire", "topography"} THEN BOOLEAN ELSE {TRUE}),
       fault \in BOOLEAN :
        LET svc == IF parse_fault /\ provider = "up"
                     THEN WeatherParseFault
                     ELSE ServiceGetData(container, provider, k)
            reply == ContainerOutput(container, event_id,
                                     service_available[container],
                                     svc, analysed, fault)
        IN /\ Observable(container, svc, analysed, obs)
           /\ ctr_reply' =
              [container |-> container,
               event_id |-> event_id,
               available |-> service_available[container],
               provider |-> provider,
               service_result |-> svc,
               analysed |-> analysed,
               fault |-> fault,
               reply |-> reply,
               interpreted_data |->
                   IF reply.status = HTTP_OK
                     THEN InterpretedData(container, obs, reply.interpreted)
                     ELSE <<>>]

get_landfire_data ==
    /\ Endpoint("landfire")
    /\ UNCHANGED <<service_available, aggVars, decVars, extVars>>

get_modis_data ==
    /\ Endpoint("modis")
    /\ UNCHANGED <<service_available, aggVars, decVars, extVars>>

get_weather_data ==
    /\ Endpoint("weather")
    /\ UNCHANGED <<service_available, aggVars, decVars, extVars>>

get_topography_data ==
    /\ Endpoint("topography")
    /\ UNCHANGED <<service_available, aggVars, decVars, extVars>>

AggIdle ==
    /\ aggregator = "none"
    /\ pc = "idle"
    /\ request = <<>>
    /\ tasks = <<>>
    /\ idx = 0
    /\ started = {}
    /\ container_results = <<>>
    /\ errors = <<>>
    /\ waited = 0
    /\ response = NoResponse

DecIdle ==
    /\ attribute_cache = <<>>
    /\ fetch_attempts = <<>>
    /\ labels_seen = <<>>
    /\ last_decode = [type |-> "none"]

\* The containers as started: each module-level service object is set or not.
InitContainer ==
    /\ service_available \in
          {f \in [Range(CONTAINER_ENDPOINTS) -> BOOLEAN] :
              \A c \in Range(CONTAINER_ENDPOINTS) : f[c] \in ServiceStates(c)}
    /\ ctr_reply = NoReply
    /\ AggIdle
    /\ DecIdle
    /\ ExtIdle

NextContainer ==
    \/ get_landfire_data
    \/ get_modis_data
    \/ get_weather_data
    \/ get_topography_data

SpecContainer == InitContainer /\ [][NextContainer]_vars

Replied == ctr_reply.container # "none"

\* C6: every request to a container endpoint is answered with a result
\* object (status 200), never with an error status; and when the service
\* is not initialised the failure is a string in errors.
C6_NoFaultPropagated ==
    Replied =>
        /\ ctr_reply.reply.status = HTTP_OK
        /\ ~ctr_reply.available => ctr_reply.reply.errors_n > 0

\* C7: when the provider could not be reached, the result has no
\* coordinate_specific and area_summary, quality_score 0.0 and an error
\* string.
C7_ProviderFailureResult ==
    (Replied /\ ctr_reply.available /\ ~ctr_reply.fault
        /\ ctr_reply.provider # "up") =>
        /\ ~ctr_reply.reply.interpreted
        /\ ctr_reply.reply.quality_score = 0
        /\ ctr_reply.reply.errors_n > 0

\* C8: every result a container returns has quality_score in [0.0, 1.0],
\* and a result with quality_score 0.0 has a non-empty errors list.
C8_QualityScore ==
    (Replied /\ ctr_reply.reply.status = HTTP_OK) =>
        /\ ctr_reply.reply.quality_score >= 0
        /\ ctr_reply.reply.quality_score <= 10
        /\ ctr_reply.reply.quality_score = 0 => ctr_reply.reply.errors_n > 0

\* C8 witness: the landfire handler caught an exception and returned the
\* error output, quality_score 0.0 with one error string.
C8_Witness ==
    /\ ctr_reply.container = "landfire"
    /\ ctr_reply.fault
    /\ ctr_reply.reply.status = HTTP_OK
    /\ ctr_reply.reply.quality_score = 0
    /\ ctr_reply.reply.errors_n = 1

(***************************************************************************)
(* LANDFIREMetadataExtractor: decoding categorical pixel values            *)
(* (specification SpecDecoder)                                             *)
(***************************************************************************)
\* The product types _interpret_pixel_values decodes with attribute tables
CategoricalProducts == {"vegetation_type", "fuel_model"}

\* self._fallback_values
fallback_values ==
    [vegetation_type |->
        (7113 :> "Urban-Low Intensity" @@ 7118 :> "Urban-Medium Intensity"
         @@ 7296 :> "California Coastal Scrub" @@ 7297 :> "Developed-Open Space"
         @@ 7298 :> "Developed-Low Intensity" @@ 7299 :> "Developed-Medium Intensity"),
     fuel_model |->
        (91 :> "Urban/Developed (Non-burnable)" @@ 92 :> "Snow/Ice (Non-burnable)"
         @@ 93 :> "Agriculture (Non-burnable)" @@ 98 :> "Water (Non-burnable)"
         @@ 99 :> "Barren (Non-burnable)" @@ 101 :> "Short Grass (1 hr)"
         @@ 102 :> "Timber (Grass and Understory)" @@ 103 :> "Tall Grass (1 hr)"
         @@ 104 :> "Chaparral (6 ft)")]

\* Pixel codes decoded: each product type gets a code of its fallback table
\* and a code no table has.
Codes(product_type) ==
    IF product_type = "vegetation_type" THEN {7298, 3001} ELSE {91, 3001}

\* A row of the CSV as csv.DictReader gives it.  VALUE is <<n>> when
\* int(row['VALUE']) gives n, and <<>> when it raises ValueError or KeyError
\* (a malformed row); label is the row's name column.
Row(value, label) == [VALUE |-> value, label |-> label]

\* What the bucket answers to list_objects_v2 and get_object: an error, a
\* listing without a CSV, or a CSV with these rows.  The bucket's table may
\* differ from one load to the next.
S3Responses(product_type) ==
    IF product_type = "vegetation_type"
      THEN { [kind |-> "network_error", rows |-> <<>>],
             [kind |-> "no_csv", rows |-> <<>>],
             [kind |-> "csv", rows |-> <<>>],
             [kind |-> "csv", rows |-> <<Row(<<>>, "Developed-Low Intensity")>>],
             [kind |-> "csv", rows |-> <<Row(<<7298>>, "Developed-Low Intensity"),
                                         Row(<<3001>>, "Open Water")>>],
             [kind |-> "csv", rows |-> <<Row(<<7298>>, "Developed-Roads")>>],
             [kind |-> "csv", rows |-> <<Row(<<>>, "Developed-Low Intensity"),
                                         Row(<<3001>>, "Open Water")>>] }
      ELSE { [kind |-> "network_error", rows |-> <<>>],
             [kind |-> "no_csv", rows |-> <<>>],
             [kind |-> "csv", rows |-> <<>>],
             [kind |-> "csv", rows |-> <<Row(<<>>, "NB1 Urban/Developed")>>],
             [kind |-> "csv", rows |-> <<Row(<<91>>, "NB1 Urban/Developed"),
                                         Row(<<3001>>, "NB8 Open Water")>>],
             [kind |-> "csv", rows |-> <<Row(<<91>>, "Urban")>>],
             [kind |-> "csv", rows |-> <<Row(<<>>, "NB1 Urban/Developed"),
                                         Row(<<3001>>, "NB8 Open Water")>>] }

\* The loop over the reader: value_map[value] = label for every row whose
\* VALUE parses; the other rows are skipped.
RECURSIVE ValueMapOf(_)
ValueMapOf(rows) ==
    IF rows = <<>> THEN <<>>
    ELSE LET front == ValueMapOf(SubSeq(rows, 1, Len(rows) - 1))
             row == rows[Len(rows)]
         IN IF row.VALUE = <<>> THEN front
                                ELSE DictSet(front, row.VALUE[1], row.label)

\* _load_attribute_table_from_s3: None (written <<>>) when S3 fails or there
\* is no CSV, else <<value_map>>
load_attribute_table_from_s3(product_type, resp) ==
    IF resp.kind = "csv" THEN <<ValueMapOf(resp.rows)>> ELSE <<>>

\* What _load_attribute_table_from_s3 can return
S3Loads(product_type) ==
    {load_attribute_table_from_s3(product_type, resp) :
        resp \in S3Responses(product_type)}

\* "if value_map:" - neither None nor an empty dict
TableLoaded(loaded) == loaded # <<>> /\ DOMAIN loaded[1] # {}

\* Variant: the table is loaded again on every call, cached or not.
CacheAfterLookup_reloads(cache, product_type, loaded) ==
    DictSet(cache, product_type,
            IF TableLoaded(loaded) THEN loaded[1] ELSE fallback_values[product_type])

\* self._attribute_cache after the lookup at the top of
\* _decode_categorical_values: a product type not yet in the cache gets the
\* loaded table, or the fallback table when the load gave nothing.
CacheAfterLookup(cache, product_type, loaded) ==
    IF product_type \notin DOMAIN cache
      THEN DictSet(cache, product_type,
                   IF TableLoaded(loaded) THEN loaded[1]
                                          ELSE fallback_values[product_type])
      ELSE cache

\* value_map.get(int(value), f'Unknown ({value})')
DecodeLabel(value_map, value) ==
    IF value \in DOMAIN value_map
      THEN value_map[value]
      ELSE "Unknown (" \o ToString(value) \o ")"

\* The most extractor instances created, and the most decode calls made
MaxExtractors == 2
MaxDecodes == 3

\* Every (instance, product type, code) that can have been decoded
DecodeKeys ==
    {key \in (1..Len(attribute_cache)) \X CategoricalProducts
                \X (Codes("vegetation_type") \cup Codes("fuel_model")) :
        key[3] \in Codes(key[2])}

RECURSIVE SumLen(_)
SumLen(keys) ==
    IF keys = {} THEN 0
    ELSE LET key == CHOOSE x \in keys : TRUE
         IN Len(labels_seen[key[1]][key[2]][key[3]]) + SumLen(keys \ {key})

\* The number of decode calls made so far
DecodesMade == SumLen(DecodeKeys)

\* LANDFIREMetadataExtractor(): a new instance, with an empty cache
NewExtractor ==
    /\ Len(attribute_cache) < MaxExtractors
    /\ attribute_cache' = Append(attribute_cache, <<>>)
    /\ fetch_attempts' = Append(fetch_attempts, [pt \in CategoricalProducts |-> 0])
    /\ labels_seen' = Append(labels_seen,
                         [pt \in CategoricalProducts |-> [c \in Codes(pt) |-> <<>>]])
    /\ UNCHANGED <<last_decode, aggVars, ctrVars, extVars>>

\* One call of _decode_categorical_values on an instance, for an array of
\* pixels that all hold one code.  s3 is what the bucket answered when the
\* call had to load the table, <<>> when it did not ask.
DecodeCategoricalValues ==
    /\ DecodesMade < MaxDecodes
    /\ \E i \in 1..Len(attribute_cache), pt \in CategoricalProducts :
       \E code \in Codes(pt), resp \in S3Responses(pt) :
        LET loaded == load_attribute_table_from_s3(pt, resp)
            cache == CacheAfterLookup(attribute_cache[i], pt, loaded)
            label == DecodeLabel(cache[pt], code)
            miss == pt \notin DOMAIN attribute_cache[i]
        IN /\ attribute_cache' = [attribute_cache EXCEPT ![i] = cache]
           /\ fetch_attempts' =
                 [fetch_attempts EXCEPT ![i][pt] = IF miss THEN @ + 1 ELSE @]
           /\ labels_seen' = [labels_seen EXCEPT ![i][pt][code] = Append(@, label)]
           /\ last_decode' = [extractor |-> i, product_type |-> pt,
                              type |-> "categorical",
                              decoded_values |-> (code :> label),
                              data_source |-> "S3",
                              s3 |-> IF miss THEN <<resp>> ELSE <<>>]
    /\ UNCHANGED <<aggVars, ctrVars, extVars>>

\* One call of extract_landfire_metadata on a pipeline output whose landfire
\* data holds rasters for 'products': the call builds an extractor of its
\* own, decodes each product with it, and returns.
extract_landfire_metadata ==
    /\ Len(attribute_cache) < MaxExtractors
    /\ \E products \in (SUBSET CategoricalProducts) \ {{}} :
       \E veg \in Codes("vegetation_type") \X S3Responses("vegetation_type"),
          fuel \in Codes("fuel_model") \X S3Responses("fuel_model") :
        LET arg == [vegetation_type |-> veg, fuel_model |-> fuel]
            Table(pt) ==
                CacheAfterLookup(<<>>, pt,
                    load_attribute_table_from_s3(pt, arg[pt][2]))[pt]
            Label(pt) == DecodeLabel(Table(pt), arg[pt][1])
            last == IF "fuel_model" \in products THEN "fuel_model"
                                                ELSE "vegetation_type"
            i == Len(attribute_cache) + 1
        IN /\ DecodesMade + Cardinality(products) <= MaxDecodes
           /\ \A pt \in CategoricalProducts \ products :
                 arg[pt] = CHOOSE x \in Codes(pt) \X S3Responses(pt) : TRUE
           /\ attribute_cache' =
                 Append(attribute_cache, [pt \in products |-> Table(pt)])
           /\ fetch_attempts' =
                 Append(fetch_attempts,
                        [pt \in CategoricalProducts |->
                            IF pt \in products THEN 1 ELSE 0])
           /\ labels_seen' =
                 Append(labels_seen,
                        [pt \in CategoricalProducts |-> [c \in Codes(pt) |->
                            IF pt \in products /\ c = arg[pt][1]
                              THEN <<Label(pt)>> ELSE <<>>]])
           /\ last_decode' = [extractor |-> i, product_type |-> last,
                              type |-> "categorical",
                              decoded_values |-> (arg[last][1] :> Label(last)),
                              data_source |-> "S3",
                              s3 |-> <<arg[last][2]>>]
    /\ UNCHANGED <<aggVars, ctrVars, extVars>>

InitDecoder ==
    /\ attribute_cache = <<>>
    /\ fetch_attempts = <<>>
    /\ labels_seen = <<>>
    /\ last_decode = [type |-> "none"]
    /\ AggIdle
    /\ service_available = <<>>
    /\ ctr_reply = NoReply
    /\ ExtIdle

NextDecoder ==
    \/ NewExtractor
    \/ DecodeCategoricalValues
    \/ extract_landfire_metadata

SpecDecoder == InitDecoder /\ [][NextDecoder]_vars

RECURSIVE C11_AttemptsUpTo(_, _)
C11_AttemptsUpTo(n, product_type) ==
    IF n = 0 THEN 0
    ELSE fetch_attempts[n][product_type] + C11_AttemptsUpTo(n - 1, product_type)

\* C11: over all the extractors a process has built, the attribute table of
\* a product type is fetched from S3 at most once.
C11_FetchedOncePerProcess ==
    \A pt \in CategoricalProducts :
        C11_AttemptsUpTo(Len(fetch_attempts), pt) <= 1

C12_FetchFailed(resp) ==
    \/ resp.kind \in {"network_error", "no_csv"}
    \/ \E n \in 1..Len(resp.rows) : resp.rows[n].VALUE = <<>>

\* C12: when the fetch of a product type's table fails - S3 cannot be
\* reached, there is no CSV, or the CSV has a malformed row - the extractor
\* holds the fallback table for that product type afterwards and the decode
\* returns the fallback table's label.
C12_FailedFetchFallsBack ==
    (last_decode.type = "categorical" /\ last_decode.s3 # <<>>
        /\ C12_FetchFailed(last_decode.s3[1])) =>
        LET pt == last_decode.product_type
            fallback == fallback_values[pt]
        IN /\ attribute_cache[last_decode.extractor][pt] = fallback
           /\ \A c \in DOMAIN last_decode.decoded_values :
                 last_decode.decoded_values[c]
                    = (IF c \in DOMAIN fallback THEN fallback[c]
                       ELSE "Unknown (" \o ToString(c) \o ")")

(***************************************************************************)
(* Sampling a pixel (specification SpecSampler): each action is one call   *)
(* of the landfire container's interpret_pixel_at_coordinate.              *)
(***************************************************************************)
SampledProducts == {"vegetation_type", "fuel_model", "canopy_cover"}

InterpretPixelAtCoordinate ==
    /\ \E grid \in Grids, row \in PixelIndexes, col \in PixelIndexes,
          product_type \in SampledProducts, raises \in BOOLEAN :
        sample' = [kind |-> "sampled", grid |-> grid, row |-> row, col |-> col,
                   product_type |-> product_type, raises |-> raises,
                   result |-> interpret_pixel_at_coordinate(
                                 grid, row, col, product_type, raises)]
    /\ UNCHANGED <<aggVars, ctrVars, decVars, threads, scale_call,
                   trgVars, calc>>

InitSampler ==
    /\ AggIdle
    /\ service_available = <<>>
    /\ ctr_reply = NoReply
    /\ DecIdle
    /\ ExtIdle

NextSampler == InterpretPixelAtCoordinate

SpecSampler == InitSampler /\ [][NextSampler]_vars

C15_InBounds ==
    /\ 0 <= sample.row /\ sample.row < sample.grid.height
    /\ 0 <= sample.col /\ sample.col < sample.grid.width

C15_IsNoData ==
    sample.grid.nodata = <<sample.grid.pixels[sample.row + 1][sample.col + 1]>>

\* C15: a sample that went through is out of bounds exactly when (row, col)
\* lies outside the raster; an in-bounds sample of a pixel that holds the
\* nodata sentinel is reported as no data; any other in-bounds sample gives
\* the raw value with its (row, col).
C15_SampleOutcome ==
    (sample.kind = "sampled" /\ ~sample.raises) =>
        /\ (sample.result.kind = "error"
               /\ sample.result.error = "Coordinates outside raster bounds")
             <=> ~C15_InBounds
        /\ (C15_InBounds /\ C15_IsNoData) => sample.result.kind = "error"
        /\ (C15_InBounds /\ ~C15_IsNoData) =>
              /\ sample.result.kind = "coordinate_pixel"
              /\ sample.result.row = sample.row
              /\ sample.result.col = sample.col
              /\ sample.result.pixel_value
                    = sample.grid.pixels[sample.row + 1][sample.col + 1]

(***************************************************************************)
(* Properties of interpreted_data (specification SpecContainer)            *)
(***************************************************************************)
C13_Vegetation ==
    ctr_reply.interpreted_data[1].coordinate_specific

\* C13: the vegetation class the landfire endpoint reports for a pixel is
\* the label of the exact code in the attribute table, else
\* "Unknown (<code>)"; for code 7298 it is "Developed-Low Intensity".
C13_ExactMatchLabel ==
    (ctr_reply.container = "landfire" /\ ctr_reply.interpreted_data # <<>>
        /\ C13_Vegetation.vegetation_pixel_value # <<>>) =>
        LET code == C13_Vegetation.vegetation_pixel_value[1]
            table == fallback_values["vegetation_type"]
        IN /\ C13_Vegetation.vegetation_class
                 = << IF code \in DOMAIN table THEN table[code]
                      ELSE "Unknown (" \o ToString(code) \o ")" >>
           /\ code = 7298 =>
                 C13_Vegetation.vegetation_class = <<"Developed-Low Intensity">>

\* C16: the output of every container either has no interpreted_data, and
\* so no risk label, or its risk_assessment is one of LOW, MODERATE, HIGH,
\* EXTREME, UNKNOWN.
C16_RiskLabelEnum ==
    (Replied /\ ctr_reply.interpreted_data # <<>>) =>
        ctr_reply.interpreted_data[1].risk_assessment
            \in {"LOW", "MODERATE", "HIGH", "EXTREME", "UNKNOWN"}

(***************************************************************************)
(* MODIS scaling (specification SpecScaling): each action is one call of   *)
(* apply_modis_scaling.  Scale factors, offsets and scaled values are kept *)
(* in ten-thousandths (0.0001 is 1, 0.02 is 200, 273.15 is 2731500).       *)
(***************************************************************************)
ScalingInfo(scale_factor, offset, valid_range, fill_value) ==
    [scale_factor |-> scale_factor, offset |-> offset,
     valid_range |-> valid_range, fill_value |-> fill_value]

\* build_modis_scaling_table().  offset is <<>> for an entry without one.
modis_scaling_table ==
    LET vegetation_indices ==
            ("250m_16_days_NDVI" :> ScalingInfo(1, <<>>, <<-2000, 10000>>, -3000)
             @@ "250m_16_days_EVI" :> ScalingInfo(1, <<>>, <<-2000, 10000>>, -3000))
        lai_fpar ==
            ("Lai_500m" :> ScalingInfo(1000, <<>>, <<0, 100>>, 255)
             @@ "Fpar_500m" :> ScalingInfo(100, <<>>, <<0, 100>>, 255))
        land_surface_temperature ==
            ("LST_Day_1km" :> ScalingInfo(200, <<2731500>>, <<7500, 65535>>, 0)
             @@ "LST_Night_1km" :> ScalingInfo(200, <<2731500>>, <<7500, 65535>>, 0))
        gross_primary_productivity ==
            ("Gpp_500m" :> ScalingInfo(1, <<>>, <<0, 30000>>, 65535))
    IN ("MOD13Q1" :> vegetation_indices @@ "MYD13Q1" :> vegetation_indices
        @@ "MOD15A2H" :> lai_fpar @@ "MYD15A2H" :> lai_fpar
        @@ "MOD11A2" :> land_surface_temperature
        @@ "MYD11A2" :> land_surface_temperature
        @@ "MOD17A2H" :> gross_primary_productivity
        @@ "MYD17A2H" :> gross_primary_productivity)

\* np.nan
NaN == [kind |-> "nan", value |-> 0]

\* Variant: the valid range is not checked.
apply_modis_scaling_unchecked_range(raw_value, product, layer) ==
    IF product \notin DOMAIN modis_scaling_table
         \/ layer \notin DOMAIN modis_scaling_table[product]
      THEN [kind |-> "raw", value |-> raw_value]
      ELSE LET scaling_info == modis_scaling_table[product][layer]
           IN IF raw_value = scaling_info.fill_value THEN NaN
              ELSE [kind |-> "scaled",
                    value |-> raw_value * scaling_info.scale_factor
                                + (IF scaling_info.offset # <<>>
                                     THEN scaling_info.offset[1] ELSE 0)]

\* apply_modis_scaling
apply_modis_scaling(raw_value, product, layer) ==
    IF product \notin DOMAIN modis_scaling_table
         \/ layer \notin DOMAIN modis_scaling_table[product]
      THEN [kind |-> "raw", value |-> raw_value]
      ELSE LET scaling_info == modis_scaling_table[product][layer]
               valid_range == scaling_info.valid_range
           IN IF raw_value = scaling_info.fill_value THEN NaN
              ELSE IF raw_value < valid_range[1] \/ raw_value > valid_range[2]
                THEN NaN
              ELSE [kind |-> "scaled",
                    value |-> raw_value * scaling_info.scale_factor
                                + (IF scaling_info.offset # <<>>
                                     THEN scaling_info.offset[1] ELSE 0)]

\* The products, layers and raw values apply_modis_scaling is called with:
\* every configured product and layer, one that is not configured, and the
\* raw values at and next to every fill value and range end.
ScaledProducts == DOMAIN modis_scaling_table \cup {"MOD09A1"}
ScaledLayers ==
    UNION {DOMAIN modis_scaling_table[p] : p \in DOMAIN modis_scaling_table}
      \cup {"sur_refl_b01"}
RawValues ==
    {-3000, -2001, -2000, -1, 0, 100, 101, 255, 7499, 7500, 10000, 10001,
     30000, 30001, 65535, 65536}

ApplyModisScaling ==
    /\ \E raw_value \in RawValues, product \in ScaledProducts,
          layer \in ScaledLayers :
        scale_call' = [kind |-> "call", raw_value |-> raw_value,
                       product |-> product, layer |-> layer,
                       result |-> apply_modis_scaling(raw_value, product, layer)]
    /\ UNCHANGED <<aggVars, ctrVars, decVars, threads, sample,
                   trgVars, calc>>

InitScaling ==
    /\ AggIdle
    /\ service_available = <<>>
    /\ ctr_reply = NoReply
    /\ DecIdle
    /\ ExtIdle

NextScaling == ApplyModisScaling

SpecScaling == InitScaling /\ [][NextScaling]_vars

C14_Configured ==
    /\ scale_call.product \in DOMAIN modis_scaling_table
    /\ scale_call.layer \in DOMAIN modis_scaling_table[scale_call.product]

C14_Info == modis_scaling_table[scale_call.product][scale_call.layer]

\* C14: for a configured (product, layer) the result is NaN when the raw
\* value is the fill value or lies outside the valid range, and otherwise
\* raw * scale_factor + offset; for a (product, layer) that is not
\* configured it is the raw value unchanged; the fill value of every
\* configured entry scales to NaN.
C14_ScalingRule ==
    /\ scale_call.kind = "call" =>
          IF C14_Configured
            THEN IF \/ scale_call.raw_value = C14_Info.fill_value
                    \/ scale_call.raw_value < C14_Info.valid_range[1]
                    \/ scale_call.raw_value > C14_Info.valid_range[2]
                   THEN scale_call.result.kind = "nan"
                   ELSE /\ scale_call.result.kind = "scaled"
                        /\ scale_call.result.value
                              = scale_call.raw_value * C14_Info.scale_factor
                                  + (IF C14_Info.offset = <<>> THEN 0
                                     ELSE C14_Info.offset[1])
            ELSE /\ scale_call.result.kind = "raw"
                 /\ scale_call.result.value = scale_call.raw_value
    /\ \A p \in DOMAIN modis_scaling_table :
          \A l \in DOMAIN modis_scaling_table[p] :
             apply_modis_scaling(modis_scaling_table[p][l].fill_value, p, l) = NaN

\* C14 witness: the fill value 0 of MOD11A2 LST_Day_1km was scaled and gave
\* NaN.
C14_Witness ==
    /\ scale_call.kind = "call"
    /\ scale_call.product = "MOD11A2"
    /\ scale_call.layer = "LST_Day_1km"
    /\ scale_call.raw_value = 0
    /\ scale_call.result = NaN

(***************************************************************************)
(* Orchestrator: POST /event-trigger and its background task               *)
(* (specifications SpecTrigger and SpecTriggerLive)                        *)
(***************************************************************************)
EMERGENCY_TIMEOUT == 60
CREATED_TIMEOUT == 120
UPDATE_TIMEOUT == 30

\* The EventUpdate bodies sent: the three event types and one that is not
\* an event type, the four priorities and one that is not a priority, at
\* 34.0522, -118.2437 or at 48.8566, 2.3522.
TriggerEvents ==
    [event_id : {"evt_fire_2024_001", "incident-2025-001"},
     event_type : {"created", "updated", "location_changed", "deleted"},
     priority : {"low", "normal", "high", "emergency", "urgent"},
     latitude : {Coord(FALSE, 34, <<0, 5, 2, 2>>), Coord(FALSE, 48, <<8, 5, 6, 6>>)},
     longitude : {Coord(TRUE, 118, <<2, 4, 3, 7>>), Coord(FALSE, 2, <<3, 5, 2, 2>>)}]

\* EventUpdate(...) builds: the field patterns and validators all pass.
EventUpdateValid(ev) ==
    /\ ev.event_type \in {"created", "updated", "location_changed"}
    /\ ev.priority \in {"low", "normal", "high", "emergency"}
    /\ LatitudeInRange(ev.latitude)
    /\ LongitudeInRange(ev.longitude)
    /\ validate_coordinate_bounds(ev.latitude, ev.longitude)
    /\ validate_coordinate_precision(ev.latitude, ev.longitude)

\* Variant: the event type is looked at before the priority.
EventRouting_type_first(ev) ==
    IF ev.event_type = "created"
      THEN [sources |-> CONTAINER_ENDPOINTS, timeout |-> 120]
    ELSE IF ev.priority = "emergency"
      THEN [sources |-> CONTAINER_ENDPOINTS, timeout |-> 60]
    ELSE [sources |-> <<"weather">>, timeout |-> 30]

\* "Determine priority and sources based on event type"
EventRouting(ev) ==
    IF ev.priority = "emergency"
      THEN [sources |-> CONTAINER_ENDPOINTS, timeout |-> EMERGENCY_TIMEOUT]
    ELSE IF ev.event_type = "created"
      THEN [sources |-> CONTAINER_ENDPOINTS, timeout |-> CREATED_TIMEOUT]
    ELSE [sources |-> <<"weather">>, timeout |-> UPDATE_TIMEOUT]

\* The most background tasks waiting to run
MaxPending == 2

\* POST /event-trigger.  FastAPI builds the EventUpdate; the handler runs
\* only if that succeeds, adds collect_event_data to the background tasks
\* and returns.
handle_event_trigger ==
    /\ Len(background_tasks) < MaxPending
    /\ \E ev \in TriggerEvents :
        /\ event' = <<ev>>
        /\ IF EventUpdateValid(ev)
             THEN LET route == EventRouting(ev)
                  IN /\ background_tasks' =
                          Append(background_tasks,
                                 [event_id |-> ev.event_id,
                                  latitude |-> ev.latitude,
                                  longitude |-> ev.longitude,
                                  sources |-> route.sources,
                                  timeout |-> route.timeout])
                     /\ trigger_response' =
                          [status |-> "triggered",
                           event_id |-> ev.event_id,
                           sources_scheduled |-> route.sources,
                           estimated_completion |-> route.timeout]
             ELSE /\ trigger_response' = [status |-> "rejected"]
                  /\ UNCHANGED background_tasks
    /\ UNCHANGED <<collection_requests, aggVars, ctrVars, decVars, threads,
                   scale_call, sample, calc>>

\* The background task: it builds a DataRequest from its arguments, prints
\* two lines and returns.  No request goes to any container.
collect_event_data ==
    /\ background_tasks # <<>>
    /\ background_tasks' = Tail(background_tasks)
    /\ collection_requests' = collection_requests
    /\ UNCHANGED <<event, trigger_response, aggVars, ctrVars, decVars, threads,
                   scale_call, sample, calc>>

InitTrigger ==
    /\ AggIdle
    /\ service_available = <<>>
    /\ ctr_reply = NoReply
    /\ DecIdle
    /\ ExtIdle

NextTrigger ==
    \/ handle_event_trigger
    \/ collect_event_data

SpecTrigger == InitTrigger /\ [][NextTrigger]_vars

\* Starlette runs the background tasks of a response once it has been sent.
SpecTriggerLive == SpecTrigger /\ WF_vars(collect_event_data)

\* C17: once /event-trigger has answered "triggered" for an event, a
\* data-collection request for that event is eventually issued to every
\* source of sources_scheduled.
C17_ScheduledSourcesCollected ==
    \A e \in {"evt_fire_2024_001", "incident-2025-001"} :
      \A s \in Range(CONTAINER_ENDPOINTS) :
        [](( /\ trigger_response.status = "triggered"
             /\ trigger_response.event_id = e
             /\ s \in Range(trigger_response.sources_scheduled))
            => <>([event_id |-> e, source |-> s] \in collection_requests))

C18_AllFour == <<"landfire", "modis", "weather", "topography">>

\* C18: an emergency trigger schedules all four sources with a 60 second
\* estimate; any other trigger of type created schedules all four with 120
\* seconds; every other trigger schedules weather alone with 30 seconds;
\* and the task added for the trigger has the sources and the time of the
\* response.
C18_TriggerRouting ==
    trigger_response.status = "triggered" =>
        LET ev == event[1]
            r == trigger_response
        IN /\ r.event_id = ev.event_id
           /\ ev.priority = "emergency" =>
                 r.sources_scheduled = C18_AllFour /\ r.estimated_completion = 60
           /\ (ev.priority # "emergency" /\ ev.event_type = "created") =>
                 r.sources_scheduled = C18_AllFour /\ r.estimated_completion = 120
           /\ (ev.priority # "emergency" /\ ev.event_type # "created") =>
                 r.sources_scheduled = <<"weather">> /\ r.estimated_completion = 30
           /\ \A n \in 1..Len(background_tasks) :
                 /\ background_tasks[n].timeout \in {30, 60, 120}
                 /\ background_tasks[n].timeout = 30
                       <=> background_tasks[n].sources = <<"weather">>
                 /\ background_tasks[n].timeout # 30
                       <=> background_tasks[n].sources = C18_AllFour

\* C18 witness: an emergency trigger for a created event was answered with
\* all four sources and 60 seconds, and its task is waiting.
C18_Witness ==
    /\ trigger_response.status = "triggered"
    /\ event[1].priority = "emergency"
    /\ event[1].event_type = "created"
    /\ trigger_response.sources_scheduled = C18_AllFour
    /\ trigger_response.estimated_completion = 60
    /\ background_tasks # <<>>
    /\ background_tasks[Len(background_tasks)].event_id = event[1].event_id
    /\ background_tasks[Len(background_tasks)].timeout = 60

(***************************************************************************)
(* The event_id of a /collect request in the container outputs             *)
(***************************************************************************)
\* The event_id values of the container outputs of the response
C19_EventIdsInResponse ==
    {response.sources[s].event_id : s \in DOMAIN response.sources}

\* C19: when /collect has answered a request carrying event_id e, every
\* container output in the response carries event_id e, so the outputs
\* together name exactly one event, those built on a container's error
\* path included.
C19_OneEventId ==
    (OrchDone /\ response.kind = "envelope" /\ DOMAIN response.sources # {}) =>
        /\ \A s \in DOMAIN response.sources :
              response.sources[s].event_id = request.event_id
        /\ Cardinality(C19_EventIdsInResponse) = 1

\* C19 witness: a request carrying an event_id was answered with the
\* outputs of two containers, one of them built on the error path, and both
\* carry the request's event_id.
C19_Witness ==
    /\ OrchDone
    /\ response.kind = "envelope"
    /\ request.event_id = <<"incident-2025-001">>
    /\ Cardinality(DOMAIN response.sources) >= 2
    /\ \E s \in DOMAIN response.sources :
          /\ response.sources[s].quality_score = QUALITY_FAILED
          /\ response.sources[s].event_id = <<"incident-2025-001">>
    /\ \E s \in DOMAIN response.sources :
          /\ response.sources[s].quality_score = QUALITY_FULL
          /\ response.sources[s].event_id = <<"incident-2025-001">>

(***************************************************************************)
(* LANDFIREMetadataExtractor: one instance used by several threads         *)
(* (specification SpecDecoderThreads)                                      *)
(***************************************************************************)
\* The threads that call _decode_categorical_values on the one instance
MaxThreads == 2
Threads == 1..MaxThreads

\* A thread outside the method
ThreadIdle ==
    [pc |-> "idle", product_type |-> "none", code |-> 0, value_map |-> <<>>,
     label |-> "none"]

\* The other variables of the decoder's state stay as they are.
ThreadFrame == UNCHANGED <<aggVars, ctrVars, scale_call, sample, trgVars, calc>>

\* A thread enters _decode_categorical_values with an array of pixels that
\* all hold one code.
ThreadCall(t) ==
    /\ threads[t].pc = "idle"
    /\ \E pt \in CategoricalProducts : \E code \in Codes(pt) :
         threads' = [threads EXCEPT ![t] =
                        [ThreadIdle EXCEPT !.pc = "check", !.product_type = pt,
                                           !.code = code]]
    /\ UNCHANGED decVars
    /\ ThreadFrame

\* "if product_type not in self._attribute_cache:"
ThreadCheck(t) ==
    /\ threads[t].pc = "check"
    /\ threads' = [threads EXCEPT ![t].pc =
                      IF threads[t].product_type \notin DOMAIN attribute_cache[1]
                        THEN "load" ELSE "read"]
    /\ UNCHANGED decVars
    /\ ThreadFrame

\* "value_map = self._load_attribute_table_from_s3(product_type)": the
\* thread waits for the bucket, other threads run meanwhile.
ThreadLoad(t) ==
    /\ threads[t].pc = "load"
    /\ \E resp \in S3Responses(threads[t].product_type) :
         threads' = [threads EXCEPT
                        ![t].pc = "store",
                        ![t].value_map =
                            load_attribute_table_from_s3(threads[t].product_type, resp)]
    /\ fetch_attempts' = [fetch_attempts EXCEPT ![1][threads[t].product_type] = @ + 1]
    /\ UNCHANGED <<attribute_cache, labels_seen, last_decode>>
    /\ ThreadFrame

\* "self._attribute_cache[product_type] = ...": the loaded table, or the
\* fallback table, is stored whatever the cache holds by now.
ThreadStore(t) ==
    /\ threads[t].pc = "store"
    /\ attribute_cache' =
          [attribute_cache EXCEPT ![1] =
              DictSet(attribute_cache[1], threads[t].product_type,
                      IF TableLoaded(threads[t].value_map)
                        THEN threads[t].value_map[1]
                        ELSE fallback_values[threads[t].product_type])]
    /\ threads' = [threads EXCEPT ![t].pc = "read", ![t].value_map = <<>>]
    /\ UNCHANGED <<fetch_attempts, labels_seen, last_decode>>
    /\ ThreadFrame

\* "value_map = self._attribute_cache[product_type]" and the decoding.  A
\* product type that is not a key raises KeyError, which the method's
\* except clause turns into an error result.
ThreadRead(t) ==
    /\ threads[t].pc = "read"
    /\ LET pt == threads[t].product_type
           code == threads[t].code
       IN IF pt \in DOMAIN attribute_cache[1]
            THEN LET label == DecodeLabel(attribute_cache[1][pt], code)
                 IN /\ threads' = [threads EXCEPT ![t].pc = "done",
                                                  ![t].label = label]
                    /\ labels_seen' =
                          [labels_seen EXCEPT ![1][pt][code] = Append(@, label)]
                    /\ last_decode' = [extractor |-> 1, product_type |-> pt,
                                       type |-> "categorical",
                                       decoded_values |-> (code :> label),
                                       data_source |-> "S3", s3 |-> <<>>]
            ELSE /\ threads' = [threads EXCEPT ![t].pc = "done",
                                               ![t].label = "error"]
                 /\ last_decode' = [extractor |-> 1, product_type |-> pt,
                                    type |-> "categorical", error |-> TRUE]
                 /\ UNCHANGED labels_seen
    /\ UNCHANGED <<attribute_cache, fetch_attempts>>
    /\ ThreadFrame

\* One extractor, just constructed, and the threads about to use it
InitDecoderThreads ==
    /\ attribute_cache = << <<>> >>
    /\ fetch_attempts = << [pt \in CategoricalProducts |-> 0] >>
    /\ labels_seen = << [pt \in CategoricalProducts |-> [c \in Codes(pt) |-> <<>>]] >>
    /\ last_decode = [type |-> "none"]
    /\ threads = [t \in Threads |-> ThreadIdle]
    /\ AggIdle
    /\ service_available = <<>>
    /\ ctr_reply = NoReply
    /\ SclIdle
    /\ SmpIdle
    /\ TrgIdle
    /\ CalcIdle

NextDecoderThreads ==
    \/ \E t \in Threads : ThreadCall(t)
    \/ \E t \in Threads : ThreadCheck(t)
    \/ \E t \in Threads : ThreadLoad(t)
    \/ \E t \in Threads : ThreadStore(t)
    \/ \E t \in Threads : ThreadRead(t)

SpecDecoderThreads == InitDecoderThreads /\ [][NextDecoderThreads]_vars

\* The threads between the cache check and the cache write for a product type
C20_FirstLoaders(product_type) ==
    {t \in Threads : /\ threads[t].pc \in {"load", "store"}
                     /\ threads[t].product_type = product_type}

\* C20: among threads decoding one product type whose table is not yet
\* loaded, at most one is between the cache check and the cache write, the
\* table is loaded once, and no thread that reads the table finds the
\* product type missing from the cache.
C20_FirstLoadExclusive ==
    /\ \A pt \in CategoricalProducts :
          /\ Cardinality(C20_FirstLoaders(pt)) <= 1
          /\ fetch_attempts[1][pt] <= 1
    /\ \A t \in Threads :
          threads[t].pc = "read" =>
              threads[t].product_type \in DOMAIN attribute_cache[1]
    /\ \A t \in Threads : threads[t].label # "error"

(***************************************************************************)
(* Raster statistics: extract_raster_metadata and                          *)
(* extract_elevation_metadata (specification SpecRaster)                   *)
(***************************************************************************)
\* The nodata sentinel of a dataset: None (written <<>>) or a number
NodataValues == { <<>>, <<0>>, <<-9999>> }

\* The cell values of the rasters read
RasterValues == {-9999, 0, 50, 170}

\* The longest band read, as a flat array of cells
MaxCells == 3

\* dataset.read(1) and dataset.nodata
Rasters ==
    [pixels : UNION {[1..n -> RasterValues] : n \in 2..MaxCells},
     nodata : NodataValues]

\* np.min, np.max and the sum of a non-empty array
SeqMin(a) == CHOOSE x \in Range(a) : \A y \in Range(a) : x <= y
SeqMax(a) == CHOOSE x \in Range(a) : \A y \in Range(a) : x >= y
RECURSIVE SeqSum(_)
SeqSum(a) == IF a = <<>> THEN 0 ELSE a[1] + SeqSum(Tail(a))

\* "data[data != dataset.nodata] if dataset.nodata else data": the sentinel
\* is tested for truth, and None and 0 are both false.
valid_cells(raster) ==
    IF raster.nodata # <<>> /\ raster.nodata[1] # 0
      THEN SelectSeq(raster.pixels, LAMBDA v : v # raster.nodata[1])
      ELSE raster.pixels

\* extract_raster_metadata: pixel_stats.  np.min of an empty array raises,
\* and the except clause returns an error.  mean is sum / valid_pixels.
extract_raster_metadata(raster) ==
    LET valid_pixels == valid_cells(raster)
    IN IF valid_pixels = <<>>
         THEN [kind |-> "error"]
         ELSE [kind |-> "metadata",
               min |-> SeqMin(valid_pixels),
               max |-> SeqMax(valid_pixels),
               sum |-> SeqSum(valid_pixels),
               unique_values |-> Cardinality(Range(valid_pixels)),
               total_pixels |-> Len(raster.pixels),
               valid_pixels |-> Len(valid_pixels),
               interpreted |-> Range(valid_pixels)]

\* _calculate_terrain_derivatives: the cells whose slope and aspect enter
\* the statistics.  The mask compares the sentinel with None.  The slope
\* and aspect values themselves (np.gradient) are not modelled.
derivative_cells(elevation_data, nodata) ==
    IF nodata # <<>>
      THEN {i \in 1..Len(elevation_data) : elevation_data[i] # nodata[1]}
      ELSE 1..Len(elevation_data)

\* extract_elevation_metadata: elevation_stats and the cells of
\* terrain_analysis
extract_elevation_metadata(raster) ==
    LET valid_elevations == valid_cells(raster)
    IN IF valid_elevations = <<>>
         THEN [kind |-> "error"]
         ELSE [kind |-> "metadata",
               min_elevation |-> SeqMin(valid_elevations),
               max_elevation |-> SeqMax(valid_elevations),
               sum_elevation |-> SeqSum(valid_elevations),
               elevation_range |-> SeqMax(valid_elevations) - SeqMin(valid_elevations),
               valid_elevations |-> Len(valid_elevations),
               slope_cells |-> derivative_cells(raster.pixels, raster.nodata),
               aspect_cells |-> derivative_cells(raster.pixels, raster.nodata)]

\* The other groups of variables stay as they are.
CalcFrame ==
    UNCHANGED <<aggVars, ctrVars, decVars, threads, scale_call, sample, trgVars>>

ExtractRasterMetadata ==
    /\ \E raster \in Rasters :
         calc' = [kind |-> "raster_metadata", raster |-> raster,
                  result |-> extract_raster_metadata(raster)]
    /\ CalcFrame

ExtractElevationMetadata ==
    /\ \E raster \in Rasters :
         calc' = [kind |-> "elevation_metadata", raster |-> raster,
                  result |-> extract_elevation_metadata(raster)]
    /\ CalcFrame

InitCalc ==
    /\ AggIdle
    /\ service_available = <<>>
    /\ ctr_reply = NoReply
    /\ DecIdle
    /\ ExtIdle

NextRaster ==
    \/ ExtractRasterMetadata
    \/ ExtractElevationMetadata

SpecRaster == InitCalc /\ [][NextRaster]_vars

\* The cells of the raster of the last call that do not hold the sentinel
C21_DataCells ==
    SelectSeq(calc.raster.pixels, LAMBDA v : <<v>> # calc.raster.nodata)

\* C21: for a raster with a nodata sentinel, 0 included, the statistics
\* returned count and cover the cells that differ from the sentinel and no
\* others: the number of valid pixels, the minimum, maximum and sum, the
\* values interpreted for coverage, and the cells whose slope and aspect are
\* used.
C21_NodataExcluded ==
    (/\ calc.kind \in {"raster_metadata", "elevation_metadata"}
     /\ calc.raster.nodata # <<>>
     /\ calc.result.kind = "metadata") =>
        IF calc.kind = "raster_metadata"
          THEN /\ calc.result.valid_pixels = Len(C21_DataCells)
               /\ calc.result.interpreted = Range(C21_DataCells)
               /\ C21_DataCells # <<>>
               /\ calc.result.min = SeqMin(C21_DataCells)
               /\ calc.result.max = SeqMax(C21_DataCells)
               /\ calc.result.sum = SeqSum(C21_DataCells)
          ELSE /\ calc.result.valid_elevations = Len(C21_DataCells)
               /\ C21_DataCells # <<>>
               /\ calc.result.min_elevation = SeqMin(C21_DataCells)
               /\ calc.result.max_elevation = SeqMax(C21_DataCells)
               /\ calc.result.sum_elevation = SeqSum(C21_DataCells)
               /\ \A i \in calc.result.slope_cells \cup calc.result.aspect_cells :
                     <<calc.raster.pixels[i]>> # calc.raster.nodata

(***************************************************************************)
(* Aspect distribution: _analyze_aspect_distribution                       *)
(* (specification SpecAspect)                                              *)
(***************************************************************************)
\* Aspects are in tenths of a degree, percentages in hundredths of a percent.
\* The lower bound, inclusive, of each direction's range; North is the two
\* ranges (337.5, 360) and (0, 22.5).
directions ==
    [Northeast |-> <<225, 675>>, East |-> <<675, 1125>>,
     Southeast |-> <<1125, 1575>>, South |-> <<1575, 2025>>,
     Southwest |-> <<2025, 2475>>, West |-> <<2475, 2925>>,
     Northwest |-> <<2925, 3375>>]
NORTH_FROM == 3375
NORTH_TO == 225

DirectionNames == (DOMAIN directions) \cup {"North"}

\* The aspect values that occur: one inside each direction, and the two
\* ends of North
AspectValues == {0, 225, 450, 900, 1350, 1800, 2250, 2700, 3150, 3375}

\* The most cells that hold one aspect value
MaxRepeat == 1

\* An array of valid aspects, as the number of cells holding each value
AspectArrays ==
    {a \in [AspectValues -> 0..MaxRepeat] : \E v \in AspectValues : a[v] > 0}

RECURSIVE CellsAmong(_, _)
CellsAmong(a, values) ==
    IF values = {} THEN 0
    ELSE LET v == CHOOSE x \in values : TRUE
         IN a[v] + CellsAmong(a, values \ {v})

\* round(x, 2) of the percentage count / total * 100, in hundredths.  No
\* quotient of the arrays used lies halfway between two hundredths.
RoundPercent(count, total) == (2 * count * 10000 + total) \div (2 * total)

\* The count of one direction: np.sum of the comparison
direction_count(a, direction) ==
    IF direction = "North"
      THEN CellsAmong(a, {v \in AspectValues : v >= NORTH_FROM \/ v <= NORTH_TO})
      ELSE CellsAmong(a, {v \in AspectValues : /\ v >= directions[direction][1]
                                                /\ v < directions[direction][2]})

\* _analyze_aspect_distribution of a non-empty array
analyze_aspect_distribution(a) ==
    LET total_pixels == CellsAmong(a, AspectValues)
    IN [d \in DirectionNames |->
           RoundPercent(direction_count(a, d), total_pixels)]

AnalyzeAspectDistribution ==
    /\ \E a \in AspectArrays :
         calc' = [kind |-> "aspect_distribution", aspect_values |-> a,
                  counts |-> [d \in DirectionNames |-> direction_count(a, d)],
                  result |-> analyze_aspect_distribution(a)]
    /\ CalcFrame

NextAspect == AnalyzeAspectDistribution

SpecAspect == InitCalc /\ [][NextAspect]_vars

RECURSIVE C22_Total(_, _)
C22_Total(f, keys) ==
    IF keys = {} THEN 0
    ELSE LET k == CHOOSE x \in keys : TRUE
         IN f[k] + C22_Total(f, keys \ {k})

\* C22: for a non-empty array of aspects in [0, 360), the counts of the
\* eight directions add up to the number of values (each value is in
\* exactly one bucket), North counts exactly the values of [337.5, 360)
\* and [0, 22.5), and the eight percentages add up to 100 within 0.01.
C22_AspectBuckets ==
    calc.kind = "aspect_distribution" =>
        LET a == calc.aspect_values
            total == CellsAmong(a, AspectValues)
        IN /\ C22_Total(calc.counts, DirectionNames) = total
           /\ calc.counts["North"] =
                 CellsAmong(a, {v \in AspectValues : v >= 3375 \/ v < 225})
           /\ C22_Total(calc.result, DirectionNames) \in 9999..10001

(***************************************************************************)
(* Coverage of the decoded labels: _calculate_coverage                     *)
(* (specification SpecCoverage)                                            *)
(***************************************************************************)
\* The codes the pixel arrays hold
CoverageCodes == DOMAIN fallback_values["vegetation_type"]

\* The most pixels that hold one code
MaxPerCode == 1

\* A non-empty array of valid pixels, as the number of pixels per code
PixelArrays ==
    {a \in [CoverageCodes -> 0..MaxPerCode] : \E v \in CoverageCodes : a[v] > 0}

\* The attribute tables in the cache: the fallback table, a table from S3
\* that has one of the codes, and a table from S3 in which two codes have
\* the same name.
AttributeTables ==
    { fallback_values["vegetation_type"],
      (7298 :> "Developed-Low Intensity"),
      (7296 :> "California Coastal Scrub" @@ 7298 :> "Developed"
       @@ 7299 :> "Developed") }

\* decoded_values of _decode_categorical_values: a label for every code of
\* the array
decoded_values_of(a, value_map) ==
    [v \in {c \in CoverageCodes : a[c] > 0} |-> DecodeLabel(value_map, v)]

\* _calculate_coverage: the loop runs over the codes in ascending order and
\* assigns coverage[label], so of the codes that share a label the largest
\* leaves its percentage.
calculate_coverage(a, decoded_values) ==
    LET unique == DOMAIN decoded_values
        total_pixels == C22_Total(a, CoverageCodes)
        labels == {decoded_values[v] : v \in unique}
        last(label) == CHOOSE v \in unique :
                          /\ decoded_values[v] = label
                          /\ \A w \in unique : decoded_values[w] = label => w <= v
    IN [label \in labels |-> RoundPercent(a[last(label)], total_pixels)]

CalculateCoverage ==
    /\ \E a \in PixelArrays, value_map \in AttributeTables :
         calc' = [kind |-> "coverage", pixel_values |-> a, value_map |-> value_map,
                  result |-> calculate_coverage(a, decoded_values_of(a, value_map))]
    /\ CalcFrame

NextCoverage == CalculateCoverage

SpecCoverage == InitCalc /\ [][NextCoverage]_vars

\* C23: for a non-empty array of valid pixels and any attribute table, the
\* percentages of coverage_summary, as rounded and keyed by label, add up to
\* 100 within 0.01.
C23_CoverageSums ==
    calc.kind = "coverage" =>
        C22_Total(calc.result, DOMAIN calc.result) \in 9999..10001

(***************************************************************************)
(* The /collect response and the order of the sources                      *)
(***************************************************************************)
\* The set of sources the request asks for, and those whose fetch returned
C24_Requested == Range(sources_to_fetch(request))
C24_Returned ==
    {s \in C24_Requested :
        s \in DOMAIN container_results /\ container_results[s] # <<>>}

\* C24: the /collect response is a function of the set of requested
\* sources and of each source's outcome: every requested source has an
\* outcome, the source keys present are the sources whose fetch returned,
\* each with the body returned, and the summary counts are the sizes of the
\* requested, returned and failed sets.  The order of the list plays no
\* part.
C24_OrderIrrelevant ==
    OrchDone =>
        /\ response.kind = "envelope"
        /\ DOMAIN container_results = C24_Requested
        /\ DOMAIN response.sources = C24_Returned
        /\ \A s \in C24_Returned : response.sources[s] = container_results[s][1]
        /\ response.keys = {"request_id", "event_id", "location", "timestamp",
                            "summary", "total_processing_time_ms"} \cup C24_Returned
        /\ response.summary.total_sources = Cardinality(C24_Requested)
        /\ response.summary.successful_sources = Cardinality(C24_Returned)
        /\ response.summary.total_errors =
              Cardinality(C24_Requested \ C24_Returned)

\* C24 witness: modis was listed before topography, the modis fetch failed
\* and the topography fetch returned; the response has topography alone and
\* counts one success and one error of two sources.
C24_Witness ==
    /\ OrchDone
    /\ request.sources = << <<"modis", "topography">> >>
    /\ container_results["modis"] = <<>>
    /\ DOMAIN response.sources = {"topography"}
    /\ response.summary.total_sources = 2
    /\ response.summary.successful_sources = 1
    /\ response.summary.total_errors = 1

(***************************************************************************)
(* Fire weather risk: WeatherService._calculate_fire_weather_risk and the  *)
(* weather container's copy of it (specification SpecWeatherRisk)          *)
(***************************************************************************)
\* weather_data['main']['temp'] in degrees Celsius, ['main']['humidity'] in
\* percent, and ['wind'].get('speed') in m/s, which may be missing
Temperatures == {15, 20, 21, 25, 26, 30, 31, 32}
Humidities == {15, 19, 20, 39, 40, 59, 60, 80}
WindSpeeds == { <<>>, <<0>>, <<5>>, <<6>>, <<10>>, <<11>>, <<15>>, <<16>>, <<18>> }

\* weather_data['wind'].get('speed', 0)
wind_speed_of(wind) == IF wind = <<>> THEN 0 ELSE wind[1]

\* WeatherService._calculate_fire_weather_risk (services/weather_service.py)
service_calculate_fire_weather_risk(temp, humidity, wind_speed) ==
    LET temperature_factor ==
            IF temp > 30 THEN 3 ELSE IF temp > 25 THEN 2
            ELSE IF temp > 20 THEN 1 ELSE 0
        humidity_factor ==
            IF humidity < 20 THEN 3 ELSE IF humidity < 40 THEN 2
            ELSE IF humidity < 60 THEN 1 ELSE 0
        wind_factor ==
            IF wind_speed > 15 THEN 3 ELSE IF wind_speed > 10 THEN 2
            ELSE IF wind_speed > 5 THEN 1 ELSE 0
        risk_score == temperature_factor + humidity_factor + wind_factor
    IN IF risk_score >= 7 THEN "EXTREME"
       ELSE IF risk_score >= 5 THEN "HIGH"
       ELSE IF risk_score >= 3 THEN "MODERATE"
       ELSE "LOW"

CalculateFireWeatherRisk ==
    /\ \E temp \in Temperatures, humidity \in Humidities, wind \in WindSpeeds :
         calc' = [kind |-> "weather_risk", temp |-> temp, humidity |-> humidity,
                  wind |-> wind,
                  container |-> calculate_fire_weather_risk(
                                    temp, humidity, wind_speed_of(wind)),
                  service |-> service_calculate_fire_weather_risk(
                                    temp, humidity, wind_speed_of(wind))]
    /\ CalcFrame

NextWeatherRisk == CalculateFireWeatherRisk

SpecWeatherRisk == InitCalc /\ [][NextWeatherRisk]_vars

\* The score of the last call by the rules of the claim: how many of the
\* three thresholds each reading is beyond
C25_Score ==
    LET wind == IF calc.wind = <<>> THEN 0 ELSE calc.wind[1]
    IN Cardinality({t \in {20, 25, 30} : calc.temp > t})
     + Cardinality({h \in {60, 40, 20} : calc.humidity < h})
     + Cardinality({w \in {5, 10, 15} : wind > w})

C25_Label ==
    IF C25_Score >= 7 THEN "EXTREME"
    ELSE IF C25_Score >= 5 THEN "HIGH"
    ELSE IF C25_Score >= 3 THEN "MODERATE"
    ELSE "LOW"

\* C25: the fire weather risk of every temperature, humidity and wind speed
\* is the label of the sum of the three sub-scores (0 to 3 each), the
\* container and the service return the same label, one of EXTREME, HIGH,
\* MODERATE and LOW, and 32 C, 15 %, 18 m/s scores 9 and is EXTREME.
C25_FireWeatherRisk ==
    calc.kind = "weather_risk" =>
        /\ C25_Score \in 0..9
        /\ calc.container = C25_Label
        /\ calc.service = calc.container
        /\ calc.container \in {"EXTREME", "HIGH", "MODERATE", "LOW"}
        /\ (calc.temp = 32 /\ calc.humidity = 15 /\ calc.wind = <<18>>) =>
              C25_Score = 9 /\ calc.container = "EXTREME"

\* C25 witness: 32 C, 15 % and 18 m/s were classified EXTREME by both.
C25_Witness ==
    /\ calc.kind = "weather_risk"
    /\ calc.temp = 32 /\ calc.humidity = 15 /\ calc.wind = <<18>>
    /\ calc.container = "EXTREME"
    /\ calc.service = "EXTREME"

(***************************************************************************)
(* Terrain roughness: the topography container's analyze_elevation_data    *)
(* (specification SpecTerrain)                                             *)
(***************************************************************************)
\* Elevations in metres, and the sentinel
ElevationValues == {-9999, 50, 100, 150, 170}

\* dataset.read(1) and dataset.nodata of the elevation GeoTIFF
ElevationRasters ==
    [pixels : UNION {[1..n -> ElevationValues] : n \in 2..MaxCells},
     nodata : { <<>>, <<-9999>> }]

\* Variant: a range equal to a threshold is classified with the higher class.
terrain_roughness_inclusive(elevation_range) ==
    IF elevation_range >= 100 THEN "HIGH"
    ELSE IF elevation_range >= 50 THEN "MODERATE"
    ELSE "LOW"

\* terrain_roughness of analyze_elevation_data
terrain_roughness(elevation_range) ==
    IF elevation_range > 100 THEN "HIGH"
    ELSE IF elevation_range > 50 THEN "MODERATE"
    ELSE "LOW"

\* analyze_elevation_data: None (written <<>>) when no cell is valid, else
\* the statistics.  "elevation_array != dataset.nodata" is true of every
\* cell when the dataset has no sentinel.
analyze_elevation_data(raster) ==
    LET valid_elevations ==
            SelectSeq(raster.pixels, LAMBDA v : <<v>> # raster.nodata)
    IN IF valid_elevations = <<>> THEN <<>>
       ELSE LET elevation_range == SeqMax(valid_elevations) - SeqMin(valid_elevations)
            IN << [min_elevation_m |-> SeqMin(valid_elevations),
                   max_elevation_m |-> SeqMax(valid_elevations),
                   elevation_range_m |-> elevation_range,
                   terrain_roughness |-> terrain_roughness(elevation_range),
                   terrain_classification |-> terrain_roughness(elevation_range),
                   fire_risk_terrain |-> fire_risk_terrain(elevation_range),
                   pixel_count |-> Len(valid_elevations)] >>

AnalyzeElevationData ==
    /\ \E raster \in ElevationRasters :
         calc' = [kind |-> "terrain", raster |-> raster,
                  result |-> analyze_elevation_data(raster)]
    /\ CalcFrame

NextTerrain == AnalyzeElevationData

SpecTerrain == InitCalc /\ [][NextTerrain]_vars

\* The valid cells of the raster of the last call
C26_Valid ==
    {calc.raster.pixels[i] : i \in {j \in 1..Len(calc.raster.pixels) :
                                      <<calc.raster.pixels[j]>> # calc.raster.nodata}}

\* The largest difference between two valid cells
C26_Range ==
    CHOOSE d \in {x - y : x \in C26_Valid, y \in C26_Valid} :
        \A x \in C26_Valid, y \in C26_Valid : x - y <= d

\* C26: for every elevation grid with a valid cell, elevation_range is max
\* minus min over the valid cells and terrain_roughness is HIGH above 100 m,
\* MODERATE above 50 m up to 100 m and LOW otherwise; min 50 and max 170
\* give 120 and HIGH.
C26_TerrainRoughness ==
    (calc.kind = "terrain" /\ C26_Valid # {}) =>
        /\ calc.result # <<>>
        /\ calc.result[1].elevation_range_m = C26_Range
        /\ calc.result[1].terrain_roughness = "HIGH" <=> C26_Range > 100
        /\ calc.result[1].terrain_roughness = "MODERATE"
              <=> (C26_Range > 50 /\ C26_Range <= 100)
        /\ calc.result[1].terrain_roughness = "LOW" <=> C26_Range <= 50
        /\ (calc.result[1].min_elevation_m = 50 /\ calc.result[1].max_elevation_m = 170)
              => /\ calc.result[1].elevation_range_m = 120
                 /\ calc.result[1].terrain_roughness = "HIGH"

\* C26 witness: a grid with a sentinel cell, minimum 50 and maximum 170 was
\* analysed: range 120, HIGH.
C26_Witness ==
    /\ calc.kind = "terrain"
    /\ calc.raster.nodata = <<-9999>>
    /\ -9999 \in Range(calc.raster.pixels)
    /\ calc.result # <<>>
    /\ calc.result[1].min_elevation_m = 50
    /\ calc.result[1].max_elevation_m = 170
    /\ calc.result[1].elevation_range_m = 120
    /\ calc.result[1].terrain_roughness = "HIGH"

(***************************************************************************)
(* The MODIS container's NDVI reading and vegetation health                *)
(* (specification SpecNdvi)                                                *)
(***************************************************************************)
\* The raw value of the centre pixel of a 250m_16_days_NDVI entry.  Scaled
\* values are kept in ten-thousandths, so raw * 0.0001 is written raw.
NdviRawValues ==
    {-10001, -10000, -3000, -2001, 1000, 1001, 3000, 3001, 6000, 6001, 6500,
     10000, 10001}

\* The most NDVI entries in the subset
MaxEntries == 2

\* The NDVI entries of the MOD13Q1 subset, oldest first
NdviSubsets == UNION {[1..n -> NdviRawValues] : n \in 0..MaxEntries}

NDVI_SCALED_MIN == -10000
NDVI_SCALED_MAX == 10000

\* The loop over the entries: latest_ndvi is None (written <<>>) until an
\* entry's scaled value lies in [-1.0, 1.0]; every such entry replaces it.
RECURSIVE latest_ndvi_of(_)
latest_ndvi_of(entries) ==
    IF entries = <<>> THEN <<>>
    ELSE LET scaled_ndvi == entries[Len(entries)]
         IN IF NDVI_SCALED_MIN <= scaled_ndvi /\ scaled_ndvi <= NDVI_SCALED_MAX
              THEN <<scaled_ndvi>>
              ELSE latest_ndvi_of(SubSeq(entries, 1, Len(entries) - 1))

\* Variant: the thresholds themselves count for the higher class.
vegetation_health_of_inclusive(latest_ndvi) ==
    IF latest_ndvi = <<>>
      THEN [vegetation_health |-> "UNKNOWN", fire_risk_vegetation |-> "UNKNOWN"]
    ELSE IF latest_ndvi[1] >= 6000
      THEN [vegetation_health |-> "HEALTHY", fire_risk_vegetation |-> "LOW"]
    ELSE IF latest_ndvi[1] >= 3000
      THEN [vegetation_health |-> "MODERATE", fire_risk_vegetation |-> "MODERATE"]
    ELSE IF latest_ndvi[1] >= 1000
      THEN [vegetation_health |-> "STRESSED", fire_risk_vegetation |-> "HIGH"]
    ELSE [vegetation_health |-> "SEVERELY_STRESSED", fire_risk_vegetation |-> "EXTREME"]

\* "Calculate vegetation health": 0.6, 0.3 and 0.1 in ten-thousandths
vegetation_health_of(latest_ndvi) ==
    IF latest_ndvi = <<>>
      THEN [vegetation_health |-> "UNKNOWN", fire_risk_vegetation |-> "UNKNOWN"]
    ELSE IF latest_ndvi[1] > 6000
      THEN [vegetation_health |-> "HEALTHY", fire_risk_vegetation |-> "LOW"]
    ELSE IF latest_ndvi[1] > 3000
      THEN [vegetation_health |-> "MODERATE", fire_risk_vegetation |-> "MODERATE"]
    ELSE IF latest_ndvi[1] > 1000
      THEN [vegetation_health |-> "STRESSED", fire_risk_vegetation |-> "HIGH"]
    ELSE [vegetation_health |-> "SEVERELY_STRESSED", fire_risk_vegetation |-> "EXTREME"]

\* coordinate_specific.get(key, "UNKNOWN")
GetOrUnknown(field) == IF field = <<>> THEN "UNKNOWN" ELSE field[1]

\* The MOD13Q1 part of get_modis_data.  subset is <<>> when the data has no
\* MOD13Q1 subset: coordinate_specific then gets none of the keys.  Else it
\* is <<entries>>, the NDVI entries of the subset, which may be none.
ProcessVegetationIndices ==
    /\ \E subset \in Optional(NdviSubsets) :
         LET entries == IF subset = <<>> THEN <<>> ELSE subset[1]
             latest_ndvi == latest_ndvi_of(entries)
             health == vegetation_health_of(latest_ndvi)
             fire_risk == IF subset = <<>> THEN <<>>
                                           ELSE <<health.fire_risk_vegetation>>
         IN calc' = [kind |-> "ndvi", subset |-> subset, entries |-> entries,
                     ndvi_latest |-> latest_ndvi,
                     vegetation_health |->
                         IF subset = <<>> THEN <<>> ELSE <<health.vegetation_health>>,
                     fire_risk_vegetation |-> fire_risk,
                     risk_assessment |-> GetOrUnknown(fire_risk)]
    /\ CalcFrame

NextNdvi == ProcessVegetationIndices

SpecNdvi == InitCalc /\ [][NextNdvi]_vars

\* The entries of the last call whose scaled value lies in [-1.0, 1.0]
C27_ValidEntries ==
    {i \in 1..Len(calc.entries) :
        -10000 <= calc.entries[i] /\ calc.entries[i] <= 10000}

\* The last of them
C27_Latest ==
    calc.entries[CHOOSE i \in C27_ValidEntries : \A j \in C27_ValidEntries : j <= i]

\* C27: the container reports a vegetation health and a vegetation fire
\* risk other than UNKNOWN exactly when an entry holds an NDVI value in
\* [-1.0, 1.0]; the latest such value v gives HEALTHY and LOW for v > 0.6,
\* MODERATE and MODERATE for v > 0.3, STRESSED and HIGH for v > 0.1, and
\* SEVERELY_STRESSED and EXTREME below; 0.65 gives HEALTHY and LOW.  With
\* no such value both are UNKNOWN, and so is risk_assessment.
C27_VegetationHealth ==
    calc.kind = "ndvi" =>
        LET h == <<GetOrUnknown(calc.vegetation_health),
                   GetOrUnknown(calc.fire_risk_vegetation)>>
        IN /\ (h[1] = "UNKNOWN") <=> (C27_ValidEntries = {})
           /\ (h[2] = "UNKNOWN") <=> (C27_ValidEntries = {})
           /\ calc.risk_assessment = h[2]
           /\ calc.subset # <<>> =>
                 /\ calc.vegetation_health # <<>>
                 /\ calc.fire_risk_vegetation # <<>>
           /\ C27_ValidEntries # {} =>
                 /\ calc.ndvi_latest = <<C27_Latest>>
                 /\ C27_Latest > 6000 => h = <<"HEALTHY", "LOW">>
                 /\ (C27_Latest > 3000 /\ C27_Latest <= 6000)
                       => h = <<"MODERATE", "MODERATE">>
                 /\ (C27_Latest > 1000 /\ C27_Latest <= 3000)
                       => h = <<"STRESSED", "HIGH">>
                 /\ C27_Latest <= 1000 => h = <<"SEVERELY_STRESSED", "EXTREME">>
                 /\ C27_Latest = 6500 => h = <<"HEALTHY", "LOW">>

\* C27 witness: the latest entry held 0.65 and the container reported
\* HEALTHY and LOW.
C27_Witness ==
    /\ calc.kind = "ndvi"
    /\ calc.entries # <<>>
    /\ calc.entries[Len(calc.entries)] = 6500
    /\ calc.ndvi_latest = <<6500>>
    /\ calc.vegetation_health = <<"HEALTHY">>
    /\ calc.fire_risk_vegetation = <<"LOW">>
    /\ calc.risk_assessment = "LOW"

\* C30: the container reports a number as ndvi_latest only for a raw value
\* for which apply_modis_scaling returns a value and not NaN: never for the
\* fill value -3000 nor for a raw value outside [-2000, 10000].
C30_AgreesWithScaling ==
    (calc.kind = "ndvi" /\ calc.ndvi_latest # <<>>) =>
        apply_modis_scaling(calc.ndvi_latest[1], "MOD13Q1", "250m_16_days_NDVI") # NaN

(***************************************************************************)
(* successful_sources in the two aggregators                               *)
(***************************************************************************)
\* The sources of the orchestrator's call whose container output carries
\* data and an empty errors list
C28_GoodOutputs ==
    {s \in DOMAIN container_results :
        /\ container_results[s] # <<>>
        /\ container_results[s][1].errors_n = 0
        /\ container_results[s][1].quality_score # QUALITY_FAILED}

\* The sources of the pipeline's call whose result carries data and an empty
\* errors list
C28_GoodResults ==
    {k \in DOMAIN response.results :
        /\ response.results[k].kind = "result"
        /\ response.results[k].data_n > 0
        /\ response.results[k].errors_n = 0}

\* C28: in the orchestrator as in the pipeline, successful_sources counts
\* only sources whose result carries data and an empty errors list; a
\* container output with quality_score 0.0 and errors is not counted.
C28_SameSuccessCriterion ==
    (pc = "done" /\ response.kind = "envelope") =>
        IF aggregator = "orchestrator"
          THEN response.summary.successful_sources <= Cardinality(C28_GoodOutputs)
          ELSE response.summary.successful_sources <= Cardinality(C28_GoodResults)

(***************************************************************************)
(* Source keys and successful_sources in the /collect response             *)
(***************************************************************************)
\* The source keys of the response body
C29_SourceKeys == response.keys \cap Range(CONTAINER_ENDPOINTS)

\* C29: in every /collect response the source keys present are the
\* sources whose output the response holds, there are as many of them as
\* successful_sources says, and no source whose fetch failed has a key.
C29_KeysMatchCount ==
    OrchDone =>
        /\ response.kind = "envelope"
        /\ C29_SourceKeys = DOMAIN response.sources
        /\ Cardinality(C29_SourceKeys) = response.summary.successful_sources
        /\ \A i \in 1..Len(errors) : errors[i].source \notin C29_SourceKeys
        /\ Cardinality(C29_SourceKeys) + response.summary.total_errors
              = response.summary.total_sources

\* C29 witness: of topography and modis, requested in this order, the
\* topography fetch failed; the response has the modis key alone and counts
\* one successful source.
C29_Witness ==
    /\ OrchDone
    /\ request.sources = << <<"topography", "modis">> >>
    /\ Len(errors) = 1
    /\ errors[1].source = "topography"
    /\ C29_SourceKeys = {"modis"}
    /\ response.summary.successful_sources = 1

====
